---------------------------- MODULE Spec2Model ----------------------------
(***************************************************************************)
(* A model of Source/ComputationNetworkLib/ComputationNode.h: the node     *)
(* abstraction of a computation graph, its traversal (EnumerateNodes), its *)
(* evaluation time stamps (TimeStamp), its backpropagation entry point     *)
(* (ComputationNode::Backprop with the lazily zeroed gradients), its       *)
(* buffer-pool hooks and AttachInputs.                                     *)
(*                                                                         *)
(* Nodes are the integers 1..n of the graph at hand; a null input pointer  *)
(* is Null.  m_inputs[n] is the ordered input list of node n.              *)
(***************************************************************************)
EXTENDS Integers, Sequences, FiniteSets, TLC

VARIABLES
    m_inputs,      \* node -> sequence of inputs (node or Null)
    allRoots,      \* the argument of the last EnumerateNodes call
    nodes,         \* the list the last EnumerateNodes call returned
    enumCalled,    \* TRUE once EnumerateNodes has been called
    visitedSet,    \* the set 'visited' of a running EnumerateNodes call
    callStack,     \* the activations of a running EnumerateNodes call, innermost last
    s_timeStampCounter, \* the process-wide counter TimeStamp::s_timeStampCounter
    m_evalTimeStamp,    \* node -> its evaluation time stamp
    m_value,            \* node -> its value (an integer stands for the buffer contents)
    seenStamps,         \* node -> whether it was evaluated, and the input time stamps its last forward evaluation saw
    inputBumped,        \* node -> TRUE when an input was bumped since its last forward evaluation
    lastOp,             \* the last time-stamp operation and what it found
    pc,                 \* thread -> where it is in BumpEvalTimeStamp
    fetched,            \* thread -> the id its CreateUniqId call returned
    issued,             \* the ids CreateUniqId has returned, in the order of the fetch-and-adds
    m_needsGradient,    \* node -> its needs-gradient flag
    m_isPartOfLoop,     \* node -> its part-of-loop flag
    m_gradient,         \* node -> column -> gradient value
    m_gradientInitialized, \* node -> the gradient has been resized and zeroed in this minibatch
    bpPc,               \* where the backward driver is: "idle", "zero", "back" or "done"
    bpOrder,            \* the evaluation order of the pass (EnumerateNodes of its root)
    bpPos,              \* the driver's position in bpOrder
    bpLog,              \* what the pass did to gradient buffers, in order
    bpPass,             \* the number of backward passes started
    lastBackprop,       \* the last call of Backprop and its outcome
    g_shareNodeValueMatrices,     \* the global switch of value-buffer sharing
    m_valueSharable,              \* node -> its value-sharable flag
    m_outputNeededDuringBackprop, \* node -> its output-needed-during-backprop flag
    requiresPreCompute,           \* node -> what its RequiresPreCompute() returns
    valueMatrix,        \* node -> the Matrix object m_value points to (Null: nullptr)
    gradientMatrix,     \* node -> the Matrix object m_gradient points to (Null: nullptr)
    matrixType,         \* Matrix object -> "dense" or "sparse"
    releasedMatrices,   \* the pool: the Matrix objects released to it, oldest first
    handedBack,         \* Matrix object -> the hook call that last released it to the pool
    lastHook,           \* the last pool hook called and what it did
    hookCalls,          \* the number of hook calls so far
    m_numInputs,        \* node -> the arity it declares through NumInputs<N> (NoArity: none)
    precision,          \* node -> the ElemType of its class, "float" or "double"
    lastAttach,         \* the last AttachInputs call and its outcome
    attachInputs,       \* node -> the function a LateAttachingNode has stored in its member attachInputs
    m_nodeName,         \* node -> its name
    operationName,      \* node -> what its OperationName() returns (the name of its class)
    m_deviceId,         \* node -> the device it lives on
    m_sampleLayout,     \* node -> its sample shape, the sequence of its dimensions
    m_pMBLayout,        \* node -> its minibatch layout (NoLayout: nullptr)
    m_parameterUpdateRequired, \* node -> its parameter-update-required flag
    Value,              \* node -> the Matrix m_value points to, with its contents (NoMatrix: nullptr)
    Gradient,           \* node -> the Matrix m_gradient points to, with its contents (NoMatrix: nullptr)
    lastCall            \* the last call of a node method and its outcome

enumVars == <<allRoots, nodes, enumCalled, visitedSet, callStack>>
timeVars == <<s_timeStampCounter, m_evalTimeStamp, m_value, seenStamps, inputBumped, lastOp>>
threadVars == <<pc, fetched, issued>>
gradVars == <<m_needsGradient, m_isPartOfLoop, m_gradient, m_gradientInitialized,
              bpPc, bpOrder, bpPos, bpLog, bpPass, lastBackprop>>

poolVars == <<g_shareNodeValueMatrices, m_valueSharable, m_outputNeededDuringBackprop,
              requiresPreCompute, valueMatrix, gradientMatrix, matrixType,
              releasedMatrices, handedBack, lastHook, hookCalls>>

attachVars == <<m_numInputs, precision, lastAttach, attachInputs>>

nodeVars == <<m_nodeName, operationName, m_deviceId, m_sampleLayout, m_pMBLayout,
              m_parameterUpdateRequired, Value, Gradient, lastCall>>

vars == <<m_inputs, allRoots, nodes, enumCalled, visitedSet, callStack,
          s_timeStampCounter, m_evalTimeStamp, m_value, seenStamps, inputBumped, lastOp,
          pc, fetched, issued,
          m_needsGradient, m_isPartOfLoop, m_gradient, m_gradientInitialized,
          bpPc, bpOrder, bpPos, bpLog, bpPass, lastBackprop,
          g_shareNodeValueMatrices, m_valueSharable, m_outputNeededDuringBackprop,
          requiresPreCompute, valueMatrix, gradientMatrix, matrixType,
          releasedMatrices, handedBack, lastHook, hookCalls,
          m_numInputs, precision, lastAttach, attachInputs,
          m_nodeName, operationName, m_deviceId, m_sampleLayout, m_pMBLayout,
          m_parameterUpdateRequired, Value, Gradient, lastCall>>

\* ------------------------------------------------------------------ bounds

\* number of nodes of the graphs the traversal is applied to
NumNodes == 3
\* largest total number of input links (edges) of a graph
MaxEdges == 3
\* number of nodes of the graphs whose time stamps are followed
TimeNodes == 2
\* the time-stamp counter is followed up to this value (it is a 64-bit counter;
\* within the bound no stamp comes near 2^63, so IsOlderThan's difference is exact)
MaxStamp == 4
\* number of threads that bump time stamps concurrently
NumThreads == 3
\* number of nodes of the graphs a backward pass runs over
PassNodes == 3
\* number of minibatches (backward passes) followed
MaxPasses == 2
\* number of nodes of the graphs (with feedback loops) single calls of the
\* backpropagation entry points are applied to
LoopNodes == 2
\* number of nodes of the graphs the buffer-pool hooks are called on
PoolNodes == 2
\* number of hook calls followed in a sequence of pool hooks
MaxHookCalls == 3
\* number of nodes at hand when inputs are attached
AttachNodes == 2
\* longest list of inputs attached
MaxAttach == 2

\* ------------------------------------------------------------- graph shapes

\* a null (unconnected) input pointer
Null == 0

Max(a, b) == IF a >= b THEN a ELSE b

\* all sequences over T of length at most k
SeqsUpTo(T, k) == UNION {[1..j -> T] : j \in 0..Max(k, 0)}

RECURSIVE InputLists(_, _, _)
\* every assignment of input lists to the nodes 1..n, with entries from T and
\* at most e entries in total
InputLists(n, e, T) ==
    IF n = 0 THEN {<<>>}
    ELSE UNION {{Append(g, l) : g \in InputLists(n - 1, e - Len(l), T)} : l \in SeqsUpTo(T, e)}

RECURSIVE DagInputLists(_, _)
\* the same for acyclic graphs without null entries: node k has inputs among 1..k-1
DagInputLists(n, e) ==
    IF n = 0 THEN {<<>>}
    ELSE UNION {{Append(g, l) : g \in DagInputLists(n - 1, e - Len(l))} : l \in SeqsUpTo(1..(n - 1), e)}

\* the nodes of graph inp
NodesOf(inp) == DOMAIN inp

\* the non-null inputs of node n
InputSet(inp, n) == {inp[n][i] : i \in 1..Len(inp[n])} \ {Null}

RECURSIVE ReachableFrom(_, _)
\* the nodes reachable from the set S along input links (S included)
ReachableFrom(inp, S) ==
    LET T == S \cup UNION {InputSet(inp, n) : n \in S}
    IN  IF T = S THEN S ELSE ReachableFrom(inp, T)

\* node b is reachable from node a along one or more input links
Reaches(inp, a, b) == b \in ReachableFrom(inp, InputSet(inp, a))

\* the elements of a sequence
Range(s) == {s[i] : i \in 1..Len(s)}

\* ------------------------------------------------------------ EnumerateNodes

\* "do not include a node twice": the test on the visited set
NotYetVisited(visited, n) == n \notin visited

RECURSIVE EnumerateNodesRec(_, _, _)
RECURSIVE EnumerateInputs(_, _, _, _)

\* a traversal that lists a node before its inputs
EnumerateNodesRecPreOrder(inp, n, st) ==
    IF ~NotYetVisited(st.visited, n) THEN st
    ELSE EnumerateInputs(inp, n, 1,
            [visited |-> st.visited \cup {n}, result |-> Append(st.result, n)])

\* a traversal that follows the inputs from the last to the first
RECURSIVE EnumerateInputsBackwards(_, _, _, _)
EnumerateInputsBackwards(inp, n, i, st) ==
    IF i > Len(inp[n]) THEN st
    ELSE LET j == Len(inp[n]) + 1 - i
         IN  EnumerateInputsBackwards(inp, n, i + 1,
                IF inp[n][j] # Null THEN EnumerateNodesRec(inp, inp[n][j], st) ELSE st)

\* the loop over m_inputs of EnumerateNodesRec, from input i on (null inputs are skipped)
EnumerateInputs(inp, n, i, st) ==
    IF i > Len(inp[n]) THEN st
    ELSE EnumerateInputs(inp, n, i + 1,
            IF inp[n][i] # Null THEN EnumerateNodesRec(inp, inp[n][i], st) ELSE st)

\* EnumerateNodesRec on node n; st is [visited, result].  The call modelled is
\* EnumerateNodes(allRoots) with skipPairNetwork = false (its default), under
\* which the guard on the operation name is true for every node.
EnumerateNodesRec(inp, n, st) ==
    IF ~NotYetVisited(st.visited, n) THEN st
    ELSE LET s1 == [st EXCEPT !.visited = @ \cup {n}]
             s2 == EnumerateInputs(inp, n, 1, s1)
         IN  [s2 EXCEPT !.result = Append(@, n)]

RECURSIVE EnumerateRoots(_, _, _, _)
\* the loop over allRoots of EnumerateNodes
EnumerateRoots(inp, roots, r, st) ==
    IF r > Len(roots) THEN st
    ELSE EnumerateRoots(inp, roots, r + 1, EnumerateNodesRec(inp, roots[r], st))

\* static EnumerateNodes(allRoots): the list it returns
EnumerateNodes(inp, roots) ==
    EnumerateRoots(inp, roots, 1, [visited |-> {}, result |-> <<>>]).result

\* the root lists EnumerateNodes is called with: up to two roots, repeats allowed
RootLists(inp) == {<<>>} \cup {<<r>> : r \in NodesOf(inp)}
                    \cup {<<r, q>> : r \in NodesOf(inp), q \in NodesOf(inp)}

\* ------------------------------------------------------------ specification
\* of the traversal: the graph is drawn, EnumerateNodes is applied to it

EnumIdle ==
    /\ allRoots = <<>> /\ nodes = <<>> /\ enumCalled = FALSE
    /\ visitedSet = {} /\ callStack = <<>>

\* the time-stamp state is not in use
TimeIdle ==
    /\ s_timeStampCounter = 0 /\ m_evalTimeStamp = <<>> /\ m_value = <<>>
    /\ seenStamps = <<>> /\ inputBumped = <<>> /\ lastOp = [op |-> "none"]

\* no thread is running
ThreadsIdle == pc = <<>> /\ fetched = <<>> /\ issued = <<>>

\* no gradient state is in use
GradIdle ==
    /\ m_needsGradient = <<>> /\ m_isPartOfLoop = <<>> /\ m_gradient = <<>>
    /\ m_gradientInitialized = <<>> /\ bpPc = "idle" /\ bpOrder = <<>> /\ bpPos = 0
    /\ bpLog = <<>> /\ bpPass = 0 /\ lastBackprop = [op |-> "none"]

\* no inputs are being attached
AttachIdle ==
    /\ m_numInputs = <<>> /\ precision = <<>> /\ lastAttach = [op |-> "none"]
    /\ attachInputs = <<>>

\* no node method of the shape, copy and comparison groups is being called
NodeIdle ==
    /\ m_nodeName = <<>> /\ operationName = <<>> /\ m_deviceId = <<>>
    /\ m_sampleLayout = <<>> /\ m_pMBLayout = <<>> /\ m_parameterUpdateRequired = <<>>
    /\ Value = <<>> /\ Gradient = <<>> /\ lastCall = [op |-> "none"]

\* no buffer pool is in use
PoolIdle ==
    /\ g_shareNodeValueMatrices = FALSE /\ m_valueSharable = <<>>
    /\ m_outputNeededDuringBackprop = <<>> /\ requiresPreCompute = <<>>
    /\ valueMatrix = <<>> /\ gradientMatrix = <<>> /\ matrixType = <<>>
    /\ releasedMatrices = <<>> /\ handedBack = <<>> /\ lastHook = [op |-> "none"]
    /\ hookCalls = 0

InitEnum ==
    /\ PoolIdle
    /\ AttachIdle
    /\ NodeIdle
    /\ m_inputs \in InputLists(NumNodes, MaxEdges, (1..NumNodes) \cup {Null})
    /\ EnumIdle
    /\ TimeIdle
    /\ ThreadsIdle
    /\ GradIdle

\* one call per drawn graph: the function is pure, a second call adds nothing
CallEnumerateNodes ==
    \E roots \in RootLists(m_inputs) :
        /\ ~enumCalled
        /\ allRoots' = roots
        /\ nodes' = EnumerateNodes(m_inputs, roots)
        /\ enumCalled' = TRUE
        /\ UNCHANGED <<visitedSet, callStack>>
        /\ UNCHANGED <<nodeVars, attachVars, poolVars, m_inputs, timeVars, threadVars, gradVars>>

NextEnum == CallEnumerateNodes

SpecEnum == InitEnum /\ [][NextEnum]_vars

\* ------------------------------------------------------- claims, traversal

\* position of node n in the sequence s (0 when absent)
PosIn(s, n) == IF n \in Range(s) THEN CHOOSE i \in 1..Len(s) : s[i] = n ELSE 0

\* input c of node n is listed before n in the returned list
ListedBefore(c, n) == PosIn(nodes, c) > 0 /\ PosIn(nodes, c) < PosIn(nodes, n)

\* some node of the graph lies on a cycle of input links
HasCycle(inp) == \E n \in NodesOf(inp) : Reaches(inp, n, n)

\* C1 as stated: for every node N of the list EnumerateNodes(roots) returned,
\* every (non-null) input of N is listed at an earlier position than N.
C1_InputsPrecede ==
    enumCalled =>
        \A n \in Range(nodes) : \A c \in InputSet(m_inputs, n) : ListedBefore(c, n)

\* C1 amended: for every node N of the returned list, every input of N from
\* which N is not itself reachable (an input that is not on a feedback cycle
\* through N) is listed at an earlier position than N.
C1_InputsPrecedeOffCycle ==
    enumCalled =>
        \A n \in Range(nodes) : \A c \in InputSet(m_inputs, n) :
            ~(c = n \/ Reaches(m_inputs, c, n)) => ListedBefore(c, n)

\* C1 witness: a call on a graph with a feedback cycle has returned a list in
\* which a node with an off-cycle input and a node with an on-cycle input occur
C1_Witness ==
    /\ enumCalled
    /\ HasCycle(m_inputs)
    /\ \E n \in Range(nodes) : \E c \in InputSet(m_inputs, n) :
            c # n /\ ~Reaches(m_inputs, c, n) /\ ListedBefore(c, n)
    /\ \E n \in Range(nodes) : \E c \in InputSet(m_inputs, n) :
            c # n /\ Reaches(m_inputs, c, n)

RECURSIVE DepthFirstPostOrder(_, _, _, _, _, _)
\* the post-order of the depth-first traversal from the roots in their order,
\* inputs followed in index order, computed with an explicit stack of
\* (node, next input index) frames
DepthFirstPostOrder(inp, roots, r, stack, seen, out) ==
    IF stack = <<>>
    THEN IF r > Len(roots) THEN out
         ELSE IF roots[r] \in seen
              THEN DepthFirstPostOrder(inp, roots, r + 1, stack, seen, out)
              ELSE DepthFirstPostOrder(inp, roots, r + 1, <<[n |-> roots[r], i |-> 1]>>,
                                       seen \cup {roots[r]}, out)
    ELSE LET d   == Len(stack)
             top == stack[d]
         IN  IF top.i > Len(inp[top.n])
             THEN DepthFirstPostOrder(inp, roots, r, SubSeq(stack, 1, d - 1), seen,
                                      Append(out, top.n))
             ELSE LET c    == inp[top.n][top.i]
                      adv  == [stack EXCEPT ![d].i = @ + 1]
                  IN  IF c = Null \/ c \in seen
                      THEN DepthFirstPostOrder(inp, roots, r, adv, seen, out)
                      ELSE DepthFirstPostOrder(inp, roots, r, Append(adv, [n |-> c, i |-> 1]),
                                               seen \cup {c}, out)

\* a sequence without repeated elements
NoDuplicates(s) == \A i, j \in 1..Len(s) : s[i] = s[j] => i = j

\* C2: EnumerateNodes(roots) returns exactly the post-order of the depth-first
\* traversal that follows inputs in index order from the roots in the given
\* order; the list holds every node reachable from a root exactly once and no
\* node that is not reachable.
C2_PostOrderOfReachable ==
    enumCalled =>
        /\ nodes = DepthFirstPostOrder(m_inputs, allRoots, 1, <<>>, {}, <<>>)
        /\ NoDuplicates(nodes)
        /\ Range(nodes) = ReachableFrom(m_inputs, Range(allRoots))

\* C2 witness: two roots that share a subgraph, or the same root given twice,
\* on a graph where some node is not reachable from the roots
C2_Witness ==
    /\ enumCalled
    /\ Len(allRoots) = 2
    /\ \/ allRoots[1] = allRoots[2]
       \/ /\ ~Reaches(m_inputs, allRoots[1], allRoots[2])
          /\ ~Reaches(m_inputs, allRoots[2], allRoots[1])
          /\ ReachableFrom(m_inputs, {allRoots[1]}) \cap ReachableFrom(m_inputs, {allRoots[2]}) # {}
    /\ Len(nodes) >= 2
    /\ Range(nodes) # NodesOf(m_inputs)

\* ------------------------------------------------------------------ TimeStamp

\* TimeStamp::ResetEvalTimeStamp (also the constructor): the stamp it stores
ResetEvalTimeStamp(counter) == counter

\* atomic_fetch_add(&s_timeStampCounter, 1): the value it returns and the
\* counter it leaves
FetchAddNoIncrement(counter) == [ret |-> counter, counter |-> counter]
FetchAdd(counter) == [ret |-> counter, counter |-> counter + 1]

\* TimeStamp::CreateUniqId: the id it returns, and the counter afterwards
CreateUniqId(counter) == FetchAdd(counter)

\* TimeStamp::IsOlderThan (equality is tested as well)
IsOlderThanStrict(mine, other) == mine - other < 0
IsOlderThan(mine, other) == mine - other <= 0

\* ComputationNodeBase::IsOutputOlderThanInputs of node n
IsOutputOlderThanInputs(inp, stamp, n) ==
    \E i \in 1..Len(inp[n]) : IsOlderThan(stamp[n], stamp[inp[n][i]])

\* the time stamps of the inputs of node n, in input order
InputStamps(inp, stamp, n) == [i \in 1..Len(inp[n]) |-> stamp[inp[n][i]]]

\* the value a forward evaluation of node n computes from its inputs' values
RECURSIVE SumValues(_, _, _)
SumValues(l, val, i) == IF i > Len(l) THEN 0 ELSE val[l[i]] + SumValues(l, val, i + 1)
ComputeValue(inp, val, n) == 1 + SumValues(inp[n], val, 1)

\* the nodes that have node n among their inputs
ParentsOf(inp, n) == {p \in NodesOf(inp) : n \in InputSet(inp, p)}

\* the graph is built: every node is constructed (TimeStamp() stores the
\* counter), nothing has been evaluated
InitTime ==
    /\ PoolIdle
    /\ AttachIdle
    /\ NodeIdle
    /\ m_inputs \in DagInputLists(TimeNodes, TimeNodes)
    /\ s_timeStampCounter = 0
    /\ m_evalTimeStamp = [n \in 1..TimeNodes |-> ResetEvalTimeStamp(0)]
    /\ m_value = [n \in 1..TimeNodes |-> 0]
    /\ seenStamps = [n \in 1..TimeNodes |-> [done |-> FALSE, stamps |-> <<>>]]
    /\ inputBumped = [n \in 1..TimeNodes |-> FALSE]
    /\ lastOp = [op |-> "none"]
    /\ EnumIdle
    /\ ThreadsIdle
    /\ GradIdle

\* new data arrives in leaf n (an input or parameter is updated): its value
\* changes and its owner calls BumpEvalTimeStamp on it
UpdateLeafValue(n) ==
    /\ s_timeStampCounter < MaxStamp
    /\ Len(m_inputs[n]) = 0
    /\ LET id == CreateUniqId(s_timeStampCounter)
       IN  /\ m_evalTimeStamp' = [m_evalTimeStamp EXCEPT ![n] = id.ret]
           /\ s_timeStampCounter' = id.counter
           /\ lastOp' = [op |-> "Bump", node |-> n, old |-> m_evalTimeStamp[n]]
    /\ m_value' = [m_value EXCEPT ![n] = @ + 1]
    /\ inputBumped' = [p \in NodesOf(m_inputs) |->
                          inputBumped[p] \/ p \in ParentsOf(m_inputs, n)]
    /\ UNCHANGED <<nodeVars, attachVars, poolVars, m_inputs, seenStamps, enumVars, threadVars, gradVars>>

\* the forward driver on node n under the lazy-evaluation rule: the node is
\* recomputed and bumped only when IsOutputOlderThanInputs() is true
ForwardPropNode(n) ==
    /\ s_timeStampCounter < MaxStamp
    /\ LET older == IsOutputOlderThanInputs(m_inputs, m_evalTimeStamp, n)
           id    == CreateUniqId(s_timeStampCounter)
       IN  /\ IF older
              THEN /\ m_value' = [m_value EXCEPT ![n] = ComputeValue(m_inputs, m_value, n)]
                   /\ m_evalTimeStamp' = [m_evalTimeStamp EXCEPT ![n] = id.ret]
                   /\ s_timeStampCounter' = id.counter
                   /\ inputBumped' = [p \in NodesOf(m_inputs) |->
                         IF p = n THEN FALSE
                         ELSE inputBumped[p] \/ p \in ParentsOf(m_inputs, n)]
              ELSE /\ UNCHANGED <<m_value, m_evalTimeStamp, s_timeStampCounter>>
                   /\ inputBumped' = [inputBumped EXCEPT ![n] = FALSE]
           /\ seenStamps' = [seenStamps EXCEPT ![n] =
                             [done |-> TRUE, stamps |-> InputStamps(m_inputs, m_evalTimeStamp, n)]]
           /\ lastOp' = [op |-> "ForwardProp", node |-> n, old |-> m_evalTimeStamp[n],
                         oldValue |-> m_value[n], older |-> older,
                         steady |-> /\ seenStamps[n].done
                                    /\ seenStamps[n].stamps = InputStamps(m_inputs, m_evalTimeStamp, n),
                         advanced |-> inputBumped[n] /\ seenStamps[n].done]
    /\ UNCHANGED <<nodeVars, attachVars, poolVars, m_inputs, enumVars, threadVars, gradVars>>

\* the graph owner resets the time stamp of every node of the graph
ResetEvalTimeStamps ==
    /\ lastOp.op # "Reset"
    /\ m_evalTimeStamp' = [n \in NodesOf(m_inputs) |-> ResetEvalTimeStamp(s_timeStampCounter)]
    /\ lastOp' = [op |-> "Reset"]
    /\ UNCHANGED <<nodeVars, attachVars, poolVars, m_inputs, s_timeStampCounter, m_value, seenStamps, inputBumped, enumVars, threadVars, gradVars>>

NextTime ==
    \/ \E n \in NodesOf(m_inputs) : UpdateLeafValue(n)
    \/ \E n \in NodesOf(m_inputs) : ForwardPropNode(n)
    \/ ResetEvalTimeStamps

SpecTime == InitTime /\ [][NextTime]_vars

\* ------------------------------------------------------- claims, time stamps

\* the last operation was a forward evaluation of a node that has inputs
LastForwardProp == lastOp.op = "ForwardProp" /\ Len(m_inputs[lastOp.node]) > 0

\* C3 as stated: when no input's time stamp has changed since the node's last
\* forward evaluation, invoking forward propagation on it again leaves the
\* node's value and time stamp unchanged.
C3_SkipWhenInputsSteady ==
    (LastForwardProp /\ lastOp.steady) =>
        /\ m_value[lastOp.node] = lastOp.oldValue
        /\ m_evalTimeStamp[lastOp.node] = lastOp.old

\* C4 as stated: when an input's time stamp has been bumped since the node's
\* last forward evaluation, IsOutputOlderThanInputs() is true and the time
\* stamp the node receives from BumpEvalTimeStamp is strictly greater than the
\* one it had before.
C4_RecomputeWhenInputBumped ==
    (LastForwardProp /\ lastOp.advanced) =>
        /\ lastOp.older
        /\ m_evalTimeStamp[lastOp.node] > lastOp.old

\* C5 as stated: IsOutputOlderThanInputs() is false (recomputation is skipped)
\* whenever the node's time stamp equals or exceeds that of every input.
C5_TieIsNotOlder ==
    LastForwardProp =>
        ((\A i \in 1..Len(seenStamps[lastOp.node].stamps) :
              lastOp.old >= seenStamps[lastOp.node].stamps[i])
          => ~lastOp.older)

\* C5 amended: IsOlderThan treats equal time stamps as older, so
\* IsOutputOlderThanInputs() is false (recomputation is skipped) exactly when
\* the node's time stamp strictly exceeds that of every input; on a tie with
\* an input it is true and the node is recomputed.
C5_TieIsOlder ==
    LastForwardProp =>
        /\ ~lastOp.older <=>
              \A i \in 1..Len(seenStamps[lastOp.node].stamps) :
                  lastOp.old > seenStamps[lastOp.node].stamps[i]
        /\ ~lastOp.older =>
              /\ m_value[lastOp.node] = lastOp.oldValue
              /\ m_evalTimeStamp[lastOp.node] = lastOp.old

\* C5 witness: a forward evaluation found the node's stamp equal to the
\* newest stamp among its inputs, and recomputed the node
C5_Witness ==
    /\ LastForwardProp
    /\ lastOp.older
    /\ \A i \in 1..Len(seenStamps[lastOp.node].stamps) :
           lastOp.old >= seenStamps[lastOp.node].stamps[i]
    /\ lastOp.old > 0

\* C6 as stated: after BumpEvalTimeStamp on a node its time stamp differs from
\* the time stamp stored in every other node.
C6_BumpedStampIsUnique ==
    (lastOp.op = "Bump" \/ (lastOp.op = "ForwardProp" /\ lastOp.older)) =>
        \A m \in NodesOf(m_inputs) \ {lastOp.node} :
            m_evalTimeStamp[m] # m_evalTimeStamp[lastOp.node]

\* ----------------------------------------------- concurrent BumpEvalTimeStamp
\* Thread t owns node t (a node of its own graph instance) and bumps its time
\* stamp again and again; the threads share s_timeStampCounter only.
\* BumpEvalTimeStamp is two steps: the atomic fetch-and-add inside
\* CreateUniqId, then the store of the returned id into m_evalTimeStamp.

InitThreads ==
    /\ PoolIdle
    /\ AttachIdle
    /\ NodeIdle
    /\ m_inputs = [t \in 1..NumThreads |-> <<>>]
    /\ s_timeStampCounter = 0
    /\ m_evalTimeStamp = [t \in 1..NumThreads |-> ResetEvalTimeStamp(0)]
    /\ pc = [t \in 1..NumThreads |-> "idle"]
    /\ fetched = [t \in 1..NumThreads |-> 0]
    /\ issued = <<>>
    /\ m_value = <<>> /\ seenStamps = <<>> /\ inputBumped = <<>> /\ lastOp = [op |-> "none"]
    /\ EnumIdle
    /\ GradIdle

\* thread t executes the atomic_fetch_add of CreateUniqId
ThreadCreateUniqId(t) ==
    /\ pc[t] = "idle"
    /\ s_timeStampCounter < MaxStamp
    /\ LET id == CreateUniqId(s_timeStampCounter)
       IN  /\ fetched' = [fetched EXCEPT ![t] = id.ret]
           /\ s_timeStampCounter' = id.counter
           /\ issued' = Append(issued, id.ret)
    /\ pc' = [pc EXCEPT ![t] = "store"]
    /\ UNCHANGED <<nodeVars, attachVars, poolVars, m_inputs, m_evalTimeStamp, m_value, seenStamps, inputBumped, lastOp, enumVars, gradVars>>

\* thread t stores the id into its node's m_evalTimeStamp
ThreadStoreStamp(t) ==
    /\ pc[t] = "store"
    /\ m_evalTimeStamp' = [m_evalTimeStamp EXCEPT ![t] = fetched[t]]
    /\ pc' = [pc EXCEPT ![t] = "idle"]
    /\ UNCHANGED <<nodeVars, attachVars, poolVars, m_inputs, s_timeStampCounter, fetched, issued, m_value, seenStamps,
                   inputBumped, lastOp, enumVars, gradVars>>

NextThreads ==
    \/ \E t \in 1..NumThreads : ThreadCreateUniqId(t)
    \/ \E t \in 1..NumThreads : ThreadStoreStamp(t)

SpecThreads == InitThreads /\ [][NextThreads]_vars

\* ------------------------------------------------ claims, concurrent bumps

\* C7: when several threads call CreateUniqId / BumpEvalTimeStamp concurrently
\* on the shared counter, in every interleaving no two calls obtain the same
\* value, and the counter never decreases.
C7_ConcurrentIdsDistinct ==
    /\ [](\A i, j \in 1..Len(issued) : issued[i] = issued[j] => i = j)
    /\ [][s_timeStampCounter' >= s_timeStampCounter]_vars

\* C7 witness: two threads have both fetched an id and neither has stored it
\* yet, after earlier calls of both
C7_Witness ==
    /\ \A t \in 1..NumThreads : pc[t] = "store"
    /\ Len(issued) > NumThreads
    /\ \E t \in 1..NumThreads : fetched[t] < fetched[1]

\* ------------------------------------------------------------------ Backprop

\* a FrameRange selects the whole minibatch or a single time step; it holds
\* the index of the time step, which for 'all frames' is the sentinel
\* SIZE_MAX, here -1
FrameRange(t) == [timeIdxInSeq |-> t]
AllFrames == FrameRange(-1)
OneStep == FrameRange(0)
FrameRanges == {AllFrames, OneStep}
\* FrameRange::IsAllFrames
IsAllFrames(fr) == fr = AllFrames

\* the columns of a gradient buffer: the time step a single-step FrameRange
\* selects, and the remaining columns of the minibatch
Columns == {"t", "rest"}
ColumnsOf(fr) == IF IsAllFrames(fr) THEN Columns ELSE {"t"}

\* Gradient().SetValue(0) after UpdateDataSize(Gradient())
ZeroBuffer == [c \in Columns |-> 0]

\* the state Backprop works on: gradient buffers, 'initialized' flags, the
\* error raised (if any) and the log of what was done
BackpropState(grad, init) == [grad |-> grad, init |-> init, err |-> "none", log |-> <<>>]
Raise(st) == [st EXCEPT !.err = "LogicError"]

\* ZeroGradientsOfInputs of node n: the flags it leaves
ZeroGradientsOfNobody(init, n) == init
\* a ZeroGradientsOfInputs that also clears the flag of the node itself
ZeroGradientsOfInputsAndSelf(init, n) ==
    [c \in DOMAIN init |-> IF c \in InputSet(m_inputs, n) \cup {n} THEN FALSE ELSE init[c]]
ZeroGradientsOfInputs(init, n) ==
    [c \in DOMAIN init |-> IF c \in InputSet(m_inputs, n) THEN FALSE ELSE init[c]]

\* a LazyZeroGradient that zeroes on every call
LazyZeroGradientEager(st, c) ==
    IF ~m_needsGradient[c] THEN Raise(st)
    ELSE [st EXCEPT !.grad[c] = ZeroBuffer, !.init[c] = TRUE,
                    !.log = Append(@, [ev |-> "zero", node |-> c])]

\* a LazyZeroGradient without the needs-gradient check
LazyZeroGradientOfAnyNode(st, c) ==
    IF st.init[c] THEN st
    ELSE [st EXCEPT !.grad[c] = ZeroBuffer, !.init[c] = TRUE,
                    !.log = Append(@, [ev |-> "zero", node |-> c])]

\* LazyZeroGradient of node c
LazyZeroGradient(st, c) ==
    IF ~m_needsGradient[c] THEN Raise(st)
    ELSE IF st.init[c] THEN st
    ELSE [st EXCEPT !.grad[c] = ZeroBuffer, !.init[c] = TRUE,
                    !.log = Append(@, [ev |-> "zero", node |-> c])]

\* the partial derivative of the stand-in (linear) operator with respect to
\* its input i: the coefficient that multiplies the node's own gradient
Coef(i) == i

\* a BackpropTo that overwrites the input's gradient
BackpropToOverwrite(st, n, i, fr) ==
    LET c == m_inputs[n][i]
    IN  [st EXCEPT !.grad[c] = [col \in Columns |->
                        IF col \in ColumnsOf(fr) THEN Coef(i) * st.grad[n][col] ELSE @[col]],
                   !.log = Append(@, [ev |-> "add", node |-> c, from |-> n, input |-> i])]

\* BackpropTo(i, fr) of node n: the partial with respect to input i is added
\* into that input's gradient, in the columns fr selects
BackpropTo(st, n, i, fr) ==
    LET c == m_inputs[n][i]
    IN  [st EXCEPT !.grad[c] = [col \in Columns |->
                        IF col \in ColumnsOf(fr) THEN @[col] + Coef(i) * st.grad[n][col] ELSE @[col]],
                   !.log = Append(@, [ev |-> "add", node |-> c, from |-> n, input |-> i])]

\* a gate that never lets a gradient out of the node's own partition
PropagatesToIgnoringOuter(n, child, childrenInThisLoop, childrenInOuterLoop) ==
    childrenInThisLoop /\ m_isPartOfLoop[child] = m_isPartOfLoop[n]

\* the condition of Backprop under which input 'child' of node n receives a
\* gradient (besides needing one)
PropagatesTo(n, child, childrenInThisLoop, childrenInOuterLoop) ==
    \/ childrenInThisLoop /\ m_isPartOfLoop[child] = m_isPartOfLoop[n]
    \/ childrenInOuterLoop /\ m_isPartOfLoop[child] # m_isPartOfLoop[n]

RECURSIVE BackpropInputsOutOfLoops(_, _, _, _, _, _)
\* a loop over the inputs without the check that a node of a loop does not
\* propagate a single time step to an input outside the loops
BackpropInputsOutOfLoops(st, n, i, fr, childrenInThisLoop, childrenInOuterLoop) ==
    IF st.err # "none" \/ i > Len(m_inputs[n]) THEN st
    ELSE LET child == m_inputs[n][i]
         IN  IF m_needsGradient[child]
                  /\ PropagatesTo(n, child, childrenInThisLoop, childrenInOuterLoop)
             THEN IF ~m_needsGradient[n] THEN Raise(st)
                  ELSE BackpropInputsOutOfLoops(
                           BackpropTo(LazyZeroGradient(st, child), n, i, fr), n, i + 1, fr,
                           childrenInThisLoop, childrenInOuterLoop)
             ELSE BackpropInputsOutOfLoops(st, n, i + 1, fr, childrenInThisLoop,
                                           childrenInOuterLoop)

RECURSIVE BackpropInputs(_, _, _, _, _, _)
\* the loop over the inputs of ComputationNode::Backprop, from input i on; it
\* stops at the first logic error
BackpropInputs(st, n, i, fr, childrenInThisLoop, childrenInOuterLoop) ==
    IF st.err # "none" \/ i > Len(m_inputs[n]) THEN st
    ELSE LET child == m_inputs[n][i]
         IN  IF m_needsGradient[child]
                  /\ PropagatesTo(n, child, childrenInThisLoop, childrenInOuterLoop)
             THEN IF ~m_needsGradient[n] THEN Raise(st)
                  ELSE LET z == LazyZeroGradient(st, child)
                       IN  IF m_isPartOfLoop[n] /\ ~m_isPartOfLoop[child] /\ ~IsAllFrames(fr)
                           THEN Raise(z)
                           ELSE BackpropInputs(BackpropTo(z, n, i, fr), n, i + 1, fr,
                                               childrenInThisLoop, childrenInOuterLoop)
             ELSE BackpropInputs(st, n, i + 1, fr, childrenInThisLoop, childrenInOuterLoop)

\* a Backprop without the whole-batch check
BackpropAnyFrameRange(st, n, fr, childrenInThisLoop, childrenInOuterLoop) ==
    BackpropInputs(st, n, 1, fr, childrenInThisLoop, childrenInOuterLoop)

\* ComputationNode::Backprop(fr, childrenInThisLoop, childrenInOuterLoop) of node n
Backprop(st, n, fr, childrenInThisLoop, childrenInOuterLoop) ==
    IF IsAllFrames(fr) /\ m_isPartOfLoop[n] /\ childrenInThisLoop THEN Raise(st)
    ELSE BackpropInputs(st, n, 1, fr, childrenInThisLoop, childrenInOuterLoop)

\* --------------------------------------------------------- the backward pass
\* over an acyclic graph: per minibatch the driver clears the 'initialized'
\* flags (ZeroGradientsOfInputs on every node of the evaluation order), sets
\* the root's gradient to 1 and calls Backprop on each node in reverse order.

RECURSIVE NeedsGradientOf(_, _, _)
\* the needs-gradient flags of a graph whose leaves have the flags 'leaf': a
\* node needs a gradient when one of its inputs does
NeedsGradientOf(inp, leaf, n) ==
    IF Len(inp[n]) = 0 THEN leaf[n]
    ELSE \E i \in 1..Len(inp[n]) : NeedsGradientOf(inp, leaf, inp[n][i])

InitPass ==
    /\ PoolIdle
    /\ AttachIdle
    /\ NodeIdle
    /\ m_inputs \in DagInputLists(PassNodes, MaxEdges)
    /\ \E leaf \in [1..PassNodes -> BOOLEAN] :
          m_needsGradient = [n \in 1..PassNodes |-> NeedsGradientOf(m_inputs, leaf, n)]
    /\ m_isPartOfLoop = [n \in 1..PassNodes |-> Reaches(m_inputs, n, n)]
    /\ m_gradient = [n \in 1..PassNodes |-> [c \in Columns |-> 5]]
    /\ m_gradientInitialized = [n \in 1..PassNodes |-> FALSE]
    /\ bpPc = "idle" /\ bpOrder = <<>> /\ bpPos = 0 /\ bpLog = <<>> /\ bpPass = 0
    /\ lastBackprop = [op |-> "none"]
    /\ EnumIdle /\ TimeIdle /\ ThreadsIdle

\* a minibatch's backward pass from root r begins
StartBackprop(r) ==
    /\ bpPc \in {"idle", "done"}
    /\ bpPass < MaxPasses
    /\ bpPass' = bpPass + 1
    /\ bpOrder' = EnumerateNodes(m_inputs, <<r>>)
    /\ bpPc' = "zero"
    /\ bpPos' = 1
    /\ bpLog' = <<>>
    /\ lastBackprop' = [op |-> "none"]
    /\ UNCHANGED <<nodeVars, attachVars, poolVars, m_inputs, m_needsGradient, m_isPartOfLoop, m_gradient,
                   m_gradientInitialized, enumVars, timeVars, threadVars>>

\* ZeroGradientsOfInputs on the next node of the order
PassZeroGradients ==
    /\ bpPc = "zero"
    /\ bpPos <= Len(bpOrder)
    /\ m_gradientInitialized' = ZeroGradientsOfInputs(m_gradientInitialized, bpOrder[bpPos])
    /\ bpPos' = bpPos + 1
    /\ UNCHANGED <<nodeVars, attachVars, poolVars, m_inputs, m_needsGradient, m_isPartOfLoop, m_gradient, bpPc, bpOrder,
                   bpLog, bpPass, lastBackprop, enumVars, timeVars, threadVars>>

\* the root's gradient is set to 1
PassSeedRoot ==
    /\ bpPc = "zero"
    /\ bpPos > Len(bpOrder)
    /\ m_gradient' = [m_gradient EXCEPT ![bpOrder[Len(bpOrder)]] = [c \in Columns |-> 1]]
    /\ bpPc' = "back"
    /\ bpPos' = Len(bpOrder)
    /\ UNCHANGED <<nodeVars, attachVars, poolVars, m_inputs, m_needsGradient, m_isPartOfLoop, m_gradientInitialized,
                   bpOrder, bpLog, bpPass, lastBackprop, enumVars, timeVars, threadVars>>

\* Backprop on the next node in reverse order
PassBackprop ==
    /\ bpPc = "back"
    /\ bpPos >= 1
    /\ LET n  == bpOrder[bpPos]
           st == Backprop(BackpropState(m_gradient, m_gradientInitialized), n,
                          AllFrames, TRUE, TRUE)
       IN  /\ m_gradient' = st.grad
           /\ m_gradientInitialized' = st.init
           /\ bpLog' = bpLog \o st.log
           /\ lastBackprop' = [op |-> "Backprop", node |-> n, fr |-> AllFrames,
                               thisLoop |-> TRUE, outerLoop |-> TRUE, err |-> st.err,
                               log |-> st.log]
           /\ bpPc' = IF st.err # "none" THEN "aborted"
                      ELSE IF bpPos = 1 THEN "done" ELSE "back"
    /\ bpPos' = bpPos - 1
    /\ UNCHANGED <<nodeVars, attachVars, poolVars, m_inputs, m_needsGradient, m_isPartOfLoop, bpOrder, bpPass,
                   enumVars, timeVars, threadVars>>

NextPass ==
    \/ \E r \in NodesOf(m_inputs) : StartBackprop(r)
    \/ PassZeroGradients
    \/ PassSeedRoot
    \/ PassBackprop

SpecPass == InitPass /\ [][NextPass]_vars

\* ---------------------------------------------------- claims, backward pass

\* the root of the current pass
PassRoot == bpOrder[Len(bpOrder)]

\* the input links (parent, input index) of the pass that lead into node c
LinksInto(c) ==
    {<<p, i>> \in Range(bpOrder) \X (1..MaxEdges) : i <= Len(m_inputs[p]) /\ m_inputs[p][i] = c}

RECURSIVE SumOver(_, _, _)
\* the sum of f over the links of S, f being node -> number and each link
\* weighted by the coefficient of its input index
SumOver(S, f, col) ==
    IF S = {} THEN 0
    ELSE LET l == CHOOSE x \in S : TRUE
         IN  Coef(l[2]) * f[l[1]][col] + SumOver(S \ {l}, f, col)

\* the contributions of all parents of c, computed from the parents' gradients
ContributionsInto(c, col) == SumOver(LinksInto(c), m_gradient, col)

\* C8: when two parents both consume a shared child C that needs a gradient,
\* after ZeroGradientsOfInputs on all nodes and a full backward pass the
\* gradient held by C is the sum of the contributions propagated through each
\* parent link (for every node of the pass but the root, whose gradient is the
\* seed 1); no contribution overwrites or re-zeroes an earlier one.
C8_GradientIsSumOverParents ==
    bpPc = "done" =>
        /\ \A col \in Columns : m_gradient[PassRoot][col] = 1
        /\ \A c \in Range(bpOrder) \ {PassRoot} : \A col \in Columns :
              m_needsGradient[c] => m_gradient[c][col] = ContributionsInto(c, col)

\* C8 witness: the second minibatch's pass is complete on a graph in which a
\* child that needs a gradient is consumed by two different parents, both of
\* which passed a non-zero contribution
C8_Witness ==
    /\ bpPc = "done"
    /\ bpPass = 2
    /\ \E c \in Range(bpOrder) : \E k, l \in LinksInto(c) :
          /\ k[1] # l[1]
          /\ m_needsGradient[c]
          /\ m_gradient[k[1]]["t"] > 0 /\ m_gradient[l[1]]["t"] > 0
          /\ m_gradient[c]["t"] >= m_gradient[k[1]]["t"] + m_gradient[l[1]]["t"]

\* the positions of the log at which node c's buffer was zeroed / added into
ZeroedAt(c) == {k \in 1..Len(bpLog) : bpLog[k].ev = "zero" /\ bpLog[k].node = c}
AddedAt(c) == {k \in 1..Len(bpLog) : bpLog[k].ev = "add" /\ bpLog[k].node = c}

\* C9: after the 'initialized' flags have been cleared at the start of
\* backprop, each input's gradient buffer is resized-and-zeroed exactly once
\* during the pass, before the first BackpropTo contribution is added into it;
\* later calls of LazyZeroGradient in the same pass change nothing.
C9_ZeroedOnceBeforeFirstAdd ==
    bpPc \in {"back", "done"} =>
        \A c \in NodesOf(m_inputs) :
            /\ Cardinality(ZeroedAt(c)) <= 1
            /\ AddedAt(c) # {} =>
                  /\ Cardinality(ZeroedAt(c)) = 1
                  /\ \A k \in AddedAt(c) : \A z \in ZeroedAt(c) : z < k
            /\ (bpPc = "done" /\ m_needsGradient[c] /\ c \in Range(bpOrder) \ {PassRoot}) =>
                  Cardinality(ZeroedAt(c)) = 1

\* C9 witness: in the second minibatch a buffer that was left 'initialized' by
\* the first has been zeroed once and then received two contributions
C9_Witness ==
    /\ bpPc = "done"
    /\ bpPass = 2
    /\ \E c \in NodesOf(m_inputs) :
          Cardinality(AddedAt(c)) >= 2 /\ Cardinality(ZeroedAt(c)) = 1

\* ------------------------------------------- single calls on graphs with loops
\* A graph with feedback loops is drawn, with any needs-gradient flags; a node
\* is part of a loop when it lies on a cycle of input links.  The gradient
\* buffers hold what an earlier minibatch left (prev: the 'initialized' flags
\* of the nodes that need a gradient are still set).  One entry point is then
\* called once.

InitBackprop ==
    /\ PoolIdle
    /\ AttachIdle
    /\ NodeIdle
    /\ m_inputs \in InputLists(LoopNodes, MaxEdges, 1..LoopNodes)
    /\ m_needsGradient \in [1..LoopNodes -> BOOLEAN]
    /\ m_isPartOfLoop = [n \in 1..LoopNodes |-> Reaches(m_inputs, n, n)]
    /\ m_gradient = [n \in 1..LoopNodes |-> [c \in Columns |-> 5]]
    /\ \E prev \in BOOLEAN :
          m_gradientInitialized = [n \in 1..LoopNodes |-> prev /\ m_needsGradient[n]]
    /\ bpPc = "idle" /\ bpOrder = <<>> /\ bpPos = 0 /\ bpLog = <<>> /\ bpPass = 0
    /\ lastBackprop = [op |-> "none"]
    /\ EnumIdle /\ TimeIdle /\ ThreadsIdle

\* what a call leaves behind, and the record of the call
CallOutcome(op, n, fr, thisLoop, outerLoop, st) ==
    /\ m_gradient' = st.grad
    /\ m_gradientInitialized' = st.init
    /\ lastBackprop' = [op |-> op, node |-> n, fr |-> fr, thisLoop |-> thisLoop,
                        outerLoop |-> outerLoop, err |-> st.err, log |-> st.log,
                        gradBefore |-> m_gradient, initBefore |-> m_gradientInitialized]
    /\ UNCHANGED <<nodeVars, attachVars, poolVars, m_inputs, m_needsGradient, m_isPartOfLoop, bpPc, bpOrder, bpPos, bpLog,
                   bpPass, enumVars, timeVars, threadVars>>

\* node n's Backprop(fr, childrenInThisLoop, childrenInOuterLoop) is called
CallBackprop(n, fr, childrenInThisLoop, childrenInOuterLoop) ==
    /\ lastBackprop.op = "none"
    /\ CallOutcome("Backprop", n, fr, childrenInThisLoop, childrenInOuterLoop,
                   Backprop(BackpropState(m_gradient, m_gradientInitialized), n, fr,
                            childrenInThisLoop, childrenInOuterLoop))

\* node n's ZeroGradientsOfInputs() is called
CallZeroGradientsOfInputs(n) ==
    /\ lastBackprop.op = "none"
    /\ CallOutcome("ZeroGradientsOfInputs", n, AllFrames, FALSE, FALSE,
                   BackpropState(m_gradient, ZeroGradientsOfInputs(m_gradientInitialized, n)))

\* node n's LazyZeroGradient() is called
CallLazyZeroGradient(n) ==
    /\ lastBackprop.op = "none"
    /\ CallOutcome("LazyZeroGradient", n, AllFrames, FALSE, FALSE,
                   LazyZeroGradient(BackpropState(m_gradient, m_gradientInitialized), n))

NextBackprop ==
    \/ \E n \in NodesOf(m_inputs), fr \in FrameRanges, cT \in BOOLEAN, cO \in BOOLEAN :
          CallBackprop(n, fr, cT, cO)
    \/ \E n \in NodesOf(m_inputs) : CallZeroGradientsOfInputs(n)
    \/ \E n \in NodesOf(m_inputs) : CallLazyZeroGradient(n)

SpecBackprop == InitBackprop /\ [][NextBackprop]_vars

\* ---------------------------------------------------- claims, single calls

\* nodes a and b are in the same loop: each is reachable from the other
InSameLoop(a, b) ==
    a = b \/ (Reaches(m_inputs, a, b) /\ Reaches(m_inputs, b, a))

\* node c is in the loop partition of node n: in n's loop when n is part of a
\* loop, outside every loop when n is not
InLoopPartitionOf(c, n) ==
    IF m_isPartOfLoop[n] THEN m_isPartOfLoop[c] /\ InSameLoop(c, n)
    ELSE ~m_isPartOfLoop[c]

\* the inputs (by index) of the last call's node that BackpropTo was called for
BackpropToCalls == {e.input : e \in {x \in Range(lastBackprop.log) : x.ev = "add"}}

\* the number of BackpropTo calls the last call made for input i
BackpropToCount(i) ==
    Cardinality({k \in 1..Len(lastBackprop.log) :
                    lastBackprop.log[k].ev = "add" /\ lastBackprop.log[k].input = i})

\* the last call was a Backprop that raised no logic error
BackpropReturned == lastBackprop.op = "Backprop" /\ lastBackprop.err = "none"

\* C10 as stated: when no logic error is raised, Backprop calls BackpropTo(i, fr)
\* for input i exactly when input i needs a gradient and either
\* childrenInThisLoop is set and input i is in the same loop partition as the
\* node, or childrenInOuterLoop is set and input i is outside the node's loop
\* partition.
C10_GatedByLoopPartition ==
    BackpropReturned =>
        LET n == lastBackprop.node
        IN  \A i \in 1..Len(m_inputs[n]) :
                i \in BackpropToCalls <=>
                    /\ m_needsGradient[m_inputs[n][i]]
                    /\ \/ lastBackprop.thisLoop /\ InLoopPartitionOf(m_inputs[n][i], n)
                       \/ lastBackprop.outerLoop /\ ~InLoopPartitionOf(m_inputs[n][i], n)

\* C10 amended: when no logic error is raised, Backprop calls BackpropTo(i, fr)
\* (once) for input i exactly when input i needs a gradient and either
\* childrenInThisLoop is set and input i's part-of-loop flag equals the node's
\* (both are part of some loop, not necessarily the same one, or neither is),
\* or childrenInOuterLoop is set and the two flags differ; with both gates
\* false no input receives a contribution.
C10_GatedByPartOfLoopFlag ==
    BackpropReturned =>
        LET n == lastBackprop.node
        IN  /\ \A i \in 1..Len(m_inputs[n]) :
                 /\ i \in BackpropToCalls <=>
                       /\ m_needsGradient[m_inputs[n][i]]
                       /\ \/ /\ lastBackprop.thisLoop
                             /\ m_isPartOfLoop[m_inputs[n][i]] = m_isPartOfLoop[n]
                          \/ /\ lastBackprop.outerLoop
                             /\ m_isPartOfLoop[m_inputs[n][i]] # m_isPartOfLoop[n]
                 /\ BackpropToCount(i) <= 1
            /\ (~lastBackprop.thisLoop /\ ~lastBackprop.outerLoop) =>
                  /\ BackpropToCalls = {}
                  /\ m_gradient = lastBackprop.gradBefore

\* C10 witness: a Backprop with childrenInThisLoop only, on a node that is
\* part of a loop, returned after a contribution to an input that is part of
\* another loop
C10_Witness ==
    /\ BackpropReturned
    /\ lastBackprop.thisLoop /\ ~lastBackprop.outerLoop
    /\ LET n == lastBackprop.node
       IN  /\ m_isPartOfLoop[n]
           /\ \E i \in BackpropToCalls :
                 /\ m_isPartOfLoop[m_inputs[n][i]]
                 /\ ~InSameLoop(m_inputs[n][i], n)

\* the last call left every gradient buffer and 'initialized' flag as it was
\* and made no BackpropTo call
CallChangedNothing ==
    /\ m_gradient = lastBackprop.gradBefore
    /\ m_gradientInitialized = lastBackprop.initBefore
    /\ lastBackprop.log = <<>>

\* the last call was a Backprop with a whole-batch FrameRange and
\* childrenInThisLoop on a node that is part of a loop
WholeBatchInLoop ==
    /\ lastBackprop.op = "Backprop"
    /\ IsAllFrames(lastBackprop.fr)
    /\ m_isPartOfLoop[lastBackprop.node]
    /\ lastBackprop.thisLoop

\* C11: Backprop with a whole-batch FrameRange on a node that is part of a
\* loop, with childrenInThisLoop set, raises a logic error before any gradient
\* buffer or 'initialized' flag is modified and before any BackpropTo call.
C11_WholeBatchInLoopRaises ==
    WholeBatchInLoop => (lastBackprop.err = "LogicError" /\ CallChangedNothing)

\* C11 witness: such a call was made on a node with an input that needs a
\* gradient, passes the gate and has a stale, uninitialized buffer
C11_Witness ==
    /\ WholeBatchInLoop
    /\ lastBackprop.err = "LogicError"
    /\ m_needsGradient[lastBackprop.node]
    /\ \E c \in InputSet(m_inputs, lastBackprop.node) :
          /\ m_needsGradient[c] /\ m_isPartOfLoop[c]
          /\ ~lastBackprop.initBefore[c]

\* the last call was a Backprop on a node whose needs-gradient flag is false
BackpropWithoutNeed ==
    lastBackprop.op = "Backprop" /\ ~m_needsGradient[lastBackprop.node]

\* the last call was a LazyZeroGradient on a node whose needs-gradient flag
\* is false
LazyZeroWithoutNeed ==
    lastBackprop.op = "LazyZeroGradient" /\ ~m_needsGradient[lastBackprop.node]

\* C12 as stated: Backprop on a node whose needs-gradient flag is false raises
\* a logic error, for every combination of gates and every input
\* configuration; LazyZeroGradient on such a node raises a logic error and
\* leaves its gradient buffer and 'initialized' flag unchanged.
C12_NoNeedAlwaysRaises ==
    /\ BackpropWithoutNeed => lastBackprop.err = "LogicError"
    /\ LazyZeroWithoutNeed => (lastBackprop.err = "LogicError" /\ CallChangedNothing)

\* some input of the last call's node needs a gradient and passes the gate
SomeInputPropagates ==
    \E c \in InputSet(m_inputs, lastBackprop.node) :
        /\ m_needsGradient[c]
        /\ PropagatesTo(lastBackprop.node, c, lastBackprop.thisLoop, lastBackprop.outerLoop)

\* C12 amended: Backprop on a node whose needs-gradient flag is false raises a
\* logic error exactly when some input needs a gradient and passes the gate
\* (or the whole-batch check of the node fails); whether it raises or not,
\* it modifies nothing and calls no BackpropTo.  LazyZeroGradient on such a
\* node raises a logic error and leaves buffer and flag unchanged.
C12_NoNeedRaisesWhenInputNeeds ==
    /\ BackpropWithoutNeed =>
          /\ lastBackprop.err = "LogicError" <=> (SomeInputPropagates \/ WholeBatchInLoop)
          /\ CallChangedNothing
    /\ LazyZeroWithoutNeed => (lastBackprop.err = "LogicError" /\ CallChangedNothing)

\* C12 witness: a Backprop on a node without need of a gradient raised because
\* of an input that needs one and passes the gate (not because of the
\* whole-batch check)
C12_Witness ==
    /\ BackpropWithoutNeed
    /\ SomeInputPropagates /\ ~WholeBatchInLoop
    /\ lastBackprop.err = "LogicError"

\* input i of the last call's node is outside the loops, needs a gradient and
\* is let through by the gate, while the node is part of a loop and the
\* FrameRange is a single time step
OutOfLoopInput(i) ==
    LET n == lastBackprop.node
        c == m_inputs[n][i]
    IN  /\ m_isPartOfLoop[n] /\ ~m_isPartOfLoop[c]
        /\ ~IsAllFrames(lastBackprop.fr)
        /\ m_needsGradient[c]
        /\ lastBackprop.outerLoop
OutOfLoopInputs ==
    IF lastBackprop.op = "Backprop"
    THEN {i \in 1..Len(m_inputs[lastBackprop.node]) : OutOfLoopInput(i)}
    ELSE {}

\* node c's gradient buffer and 'initialized' flag are what they were before
\* the last call
GradientUntouched(c) ==
    /\ m_gradient[c] = lastBackprop.gradBefore[c]
    /\ m_gradientInitialized[c] = lastBackprop.initBefore[c]

\* C34 as stated: a Backprop with a single-time-step FrameRange on a node that
\* is part of a loop, with an input outside the loops that would receive a
\* gradient, raises a logic error instead of calling BackpropTo for that
\* input, and leaves that input's gradient buffer and 'initialized' flag
\* unchanged.
C34_OutOfLoopInputUntouched ==
    \A i \in OutOfLoopInputs :
        /\ lastBackprop.err = "LogicError"
        /\ i \notin BackpropToCalls
        /\ GradientUntouched(m_inputs[lastBackprop.node][i])

\* the first of the inputs outside the loops that would receive a gradient
FirstOutOfLoopInput == CHOOSE i \in OutOfLoopInputs : \A j \in OutOfLoopInputs : i <= j

\* C34 amended: such a call raises a logic error instead of calling BackpropTo
\* for that input.  The input's gradient buffer and 'initialized' flag are
\* unchanged, except that the first such input of a node that needs a
\* gradient, when its flag was clear, has been zeroed and flagged as
\* initialized by the failing call (LazyZeroGradient runs before the check).
C34_OutOfLoopInputGetsNoContribution ==
    \A i \in OutOfLoopInputs :
        LET n == lastBackprop.node
            c == m_inputs[n][i]
            first == m_inputs[n][FirstOutOfLoopInput]
        IN  /\ lastBackprop.err = "LogicError"
            /\ i \notin BackpropToCalls
            /\ IF c = first /\ m_needsGradient[n] /\ ~lastBackprop.initBefore[c]
               THEN m_gradient[c] = ZeroBuffer /\ m_gradientInitialized[c]
               ELSE GradientUntouched(c)

\* C34 witness: the failing call first added a contribution to an input of the
\* node's own loop and then zeroed the stale buffer of the input outside the
\* loops, without a contribution to it
C34_Witness ==
    /\ OutOfLoopInputs # {}
    /\ lastBackprop.err = "LogicError"
    /\ BackpropToCalls # {}
    /\ \E i \in OutOfLoopInputs :
          /\ ~GradientUntouched(m_inputs[lastBackprop.node][i])
          /\ i \notin BackpropToCalls

\* ------------------------------------------------------------ buffer pool
\* m_value and m_gradient are shared_ptr<Matrix>: valueMatrix[n] and
\* gradientMatrix[n] name the Matrix object node n points to.  Matrix objects
\* are numbered 1, 2, ... in the order of their creation.  All nodes are on one
\* device.  The pool (MatrixPool) keeps the Matrix objects released to it and
\* hands the most recently released one to the next request; with nothing
\* released it creates a new dense Matrix.

Dense == "dense"
Sparse == "sparse"

\* the state the hooks work on
PoolState ==
    [value |-> valueMatrix, gradient |-> gradientMatrix, type |-> matrixType,
     pool |-> releasedMatrices, err |-> "none", ret |-> Null,
     requested |-> <<>>, released |-> <<>>, releasedFrom |-> <<>>]

\* make_shared<Matrix>(deviceId): a new dense Matrix object
NewMatrix(st) == [st EXCEPT !.type = Append(@, Dense), !.ret = Len(st.type) + 1]

\* MatrixPool::Request
MatrixPoolRequest(st) ==
    IF st.pool = <<>> THEN NewMatrix(st)
    ELSE [st EXCEPT !.pool = SubSeq(@, 1, Len(@) - 1), !.ret = st.pool[Len(st.pool)]]

\* MatrixPool::Release: the pool takes the Matrix object; the caller's
\* pointer is passed by value
MatrixPoolRelease(st, b) ==
    [st EXCEPT !.pool = Append(@, b), !.released = Append(@, b)]

\* CreateMatrixIfNull on m_value (field "value") or m_gradient ("gradient")
CreateMatrixIfNull(st, field, n) ==
    IF st[field][n] = Null
    THEN LET r == NewMatrix(st) IN [r EXCEPT ![field][n] = r.ret]
    ELSE st

\* a RequestMatrixFromPool that asks the pool whatever the node holds
RequestMatrixFromPoolAlways(st, field, n) ==
    LET r == MatrixPoolRequest(st)
    IN  [r EXCEPT ![field][n] = r.ret, !.requested = Append(@, r.ret)]

\* a RequestMatrixFromPool that creates a new Matrix instead of asking the pool
RequestMatrixFromPoolNew(st, field, n) ==
    IF st[field][n] = Null
    THEN LET r == NewMatrix(st)
         IN  [r EXCEPT ![field][n] = r.ret, !.requested = Append(@, r.ret)]
    ELSE st

\* RequestMatrixFromPool on m_value or m_gradient of node n
RequestMatrixFromPool(st, field, n) ==
    IF st[field][n] = Null
    THEN LET r == MatrixPoolRequest(st)
         IN  [r EXCEPT ![field][n] = r.ret, !.requested = Append(@, r.ret)]
    ELSE st

\* ReleaseMatrixToPool on m_value or m_gradient of node n (never called with
\* a null pointer); the node's pointer is not reset
ReleaseMatrixToPool(st, field, n) ==
    [MatrixPoolRelease(st, st[field][n]) EXCEPT !.releasedFrom = Append(@, field)]

\* m_value-> on a null pointer
NullDereference(st) == [st EXCEPT !.err = "NullDereference"]

IsOutputNeededDuringBackprop(n) ==
    ~g_shareNodeValueMatrices \/ m_outputNeededDuringBackprop[n]

isValueSharable(n) == m_valueSharable[n]

IsLeaf(n) == Len(m_inputs[n]) = 0

RequestMatricesBeforeForwardProp(st, n) == RequestMatrixFromPool(st, "value", n)

\* a ReleaseMatricesAfterForwardProp that ignores the sharable flag
ReleaseMatricesAfterForwardPropOfAnyValue(st, n) ==
    IF IsOutputNeededDuringBackprop(n) THEN st
    ELSE IF st.value[n] = Null THEN NullDereference(st)
    ELSE IF st.type[st.value[n]] # Sparse
         THEN ReleaseMatrixToPool(st, "value", n)
         ELSE st

ReleaseMatricesAfterForwardProp(st, n) ==
    IF IsOutputNeededDuringBackprop(n) THEN st
    ELSE IF st.value[n] = Null THEN NullDereference(st)
    ELSE IF st.type[st.value[n]] # Sparse /\ isValueSharable(n)
         THEN ReleaseMatrixToPool(st, "value", n)
         ELSE st

\* a RequestMatricesBeforeBackprop that asks the pool whatever the node holds
RequestMatricesBeforeBackpropAlways(st, n) == RequestMatrixFromPoolAlways(st, "gradient", n)

RequestMatricesBeforeBackprop(st, n) == RequestMatrixFromPool(st, "gradient", n)

RECURSIVE AllocateGradientMatricesFrom(_, _, _)
\* the loop of AllocateGradientMatricesForInputs of node n, from input i on
AllocateGradientMatricesFrom(st, n, i) ==
    IF i > Len(m_inputs[n]) THEN st
    ELSE AllocateGradientMatricesFrom(
             IF m_needsGradient[m_inputs[n][i]]
             THEN RequestMatricesBeforeBackprop(st, m_inputs[n][i])
             ELSE st,
             n, i + 1)

AllocateGradientMatricesForInputs(st, n) == AllocateGradientMatricesFrom(st, n, 1)

\* a second half of ReleaseMatricesAfterBackprop that returns any retained
\* value buffer
ReleaseValueAfterBackpropOfAnyValue(st, n) ==
    IF ~IsOutputNeededDuringBackprop(n) THEN st
    ELSE IF st.value[n] = Null THEN NullDereference(st)
    ELSE ReleaseMatrixToPool(st, "value", n)

\* a second half of ReleaseMatricesAfterBackprop that returns the value buffer
\* whether or not the output was needed during backprop
ReleaseValueAfterBackpropNeededOrNot(st, n) ==
    IF st.value[n] = Null THEN NullDereference(st)
    ELSE IF st.type[st.value[n]] # Sparse /\ isValueSharable(n)
         THEN ReleaseMatrixToPool(st, "value", n)
         ELSE st

\* the second half of ReleaseMatricesAfterBackprop: the value buffer
ReleaseValueAfterBackprop(st, n) ==
    IF ~IsOutputNeededDuringBackprop(n) THEN st
    ELSE IF st.value[n] = Null THEN NullDereference(st)
    ELSE IF st.type[st.value[n]] # Sparse /\ isValueSharable(n)
         THEN ReleaseMatrixToPool(st, "value", n)
         ELSE st

\* a ReleaseMatricesAfterBackprop that does not spare leaves and
\* precomputed nodes
ReleaseMatricesAfterBackpropOfAnyNode(st, n) ==
    ReleaseValueAfterBackprop(
        IF st.gradient[n] # Null /\ st.type[st.gradient[n]] # Sparse
        THEN ReleaseMatrixToPool(st, "gradient", n)
        ELSE st,
        n)

ReleaseMatricesAfterBackprop(st, n) ==
    IF ~IsLeaf(n) /\ ~requiresPreCompute[n]
    THEN ReleaseValueAfterBackprop(
             IF st.gradient[n] # Null /\ st.type[st.gradient[n]] # Sparse
             THEN ReleaseMatrixToPool(st, "gradient", n)
             ELSE st,
             n)
    ELSE st

\* no Matrix object has been released to the pool by a hook yet
NeverHandedBack == [node |-> 0, op |-> "none"]

\* what a hook call on node n leaves behind, and the record of the call
HookOutcome(op, n, st) ==
    /\ hookCalls < MaxHookCalls
    /\ valueMatrix' = st.value
    /\ gradientMatrix' = st.gradient
    /\ matrixType' = st.type
    /\ releasedMatrices' = st.pool
    /\ handedBack' = [b \in 1..Len(st.type) |->
                        IF b \in Range(st.released) THEN [node |-> n, op |-> op]
                        ELSE IF b <= Len(handedBack) THEN handedBack[b]
                        ELSE NeverHandedBack]
    /\ lastHook' = [op |-> op, node |-> n, err |-> st.err,
                    requested |-> st.requested, released |-> st.released,
                    valueBefore |-> valueMatrix, gradientBefore |-> gradientMatrix,
                    poolBefore |-> releasedMatrices]
    /\ hookCalls' = hookCalls + 1
    /\ UNCHANGED <<g_shareNodeValueMatrices, m_valueSharable,
                   m_outputNeededDuringBackprop, requiresPreCompute,
                   m_inputs, enumVars, timeVars, threadVars, gradVars, attachVars, nodeVars>>

CallRequestMatricesBeforeForwardProp(n) ==
    HookOutcome("RequestMatricesBeforeForwardProp", n,
                   RequestMatricesBeforeForwardProp(PoolState, n))

CallReleaseMatricesAfterForwardProp(n) ==
    HookOutcome("ReleaseMatricesAfterForwardProp", n,
                   ReleaseMatricesAfterForwardProp(PoolState, n))

CallAllocateGradientMatricesForInputs(n) ==
    HookOutcome("AllocateGradientMatricesForInputs", n,
                   AllocateGradientMatricesForInputs(PoolState, n))

CallRequestMatricesBeforeBackprop(n) ==
    HookOutcome("RequestMatricesBeforeBackprop", n,
                   RequestMatricesBeforeBackprop(PoolState, n))

CallReleaseMatricesAfterBackprop(n) ==
    HookOutcome("ReleaseMatricesAfterBackprop", n,
                   ReleaseMatricesAfterBackprop(PoolState, n))

NextPool ==
    \/ \E n \in NodesOf(m_inputs) : CallRequestMatricesBeforeForwardProp(n)
    \/ \E n \in NodesOf(m_inputs) : CallReleaseMatricesAfterForwardProp(n)
    \/ \E n \in NodesOf(m_inputs) : CallAllocateGradientMatricesForInputs(n)
    \/ \E n \in NodesOf(m_inputs) : CallRequestMatricesBeforeBackprop(n)
    \/ \E n \in NodesOf(m_inputs) : CallReleaseMatricesAfterBackprop(n)

\* the variables the pool hooks do not use
PoolOthersIdle ==
    /\ m_isPartOfLoop = <<>> /\ m_gradient = <<>> /\ m_gradientInitialized = <<>>
    /\ bpPc = "idle" /\ bpOrder = <<>> /\ bpPos = 0 /\ bpLog = <<>> /\ bpPass = 0
    /\ lastBackprop = [op |-> "none"]
    /\ EnumIdle /\ TimeIdle /\ ThreadsIdle /\ AttachIdle /\ NodeIdle

\* ComputationNode::MarkValueNonSharable on every node of S, before any hook
\* is called: the flag is cleared and the value Matrix is created outside the
\* pool (CreateMatrixIfNull), the Matrix objects numbered in node order
EagerMatrixOf(S, n) == Cardinality({m \in S : m <= n})
MarkValueNonSharable(S) ==
    [sharable |-> [n \in 1..PoolNodes |-> n \notin S],
     value |-> [n \in 1..PoolNodes |-> IF n \in S THEN EagerMatrixOf(S, n) ELSE Null],
     type |-> [b \in 1..Cardinality(S) |-> Dense]]

\* Sequences of hook calls on a chain of operator nodes (node k has node k-1
\* as its input) as the network set them up: some values marked non-sharable,
\* the global switch and the output-needed flags set; no other node has a
\* buffer, nothing is in the pool, every node needs a gradient.
InitPool ==
    /\ m_inputs = [k \in 1..PoolNodes |-> IF k = 1 THEN <<>> ELSE <<k - 1>>]
    /\ g_shareNodeValueMatrices \in BOOLEAN
    /\ m_outputNeededDuringBackprop \in [1..PoolNodes -> BOOLEAN]
    /\ \E S \in SUBSET (1..PoolNodes) :
          /\ m_valueSharable = MarkValueNonSharable(S).sharable
          /\ valueMatrix = MarkValueNonSharable(S).value
          /\ matrixType = MarkValueNonSharable(S).type
          /\ handedBack = [b \in 1..Cardinality(S) |-> NeverHandedBack]
    /\ requiresPreCompute = [n \in 1..PoolNodes |-> FALSE]
    /\ m_needsGradient = [n \in 1..PoolNodes |-> TRUE]
    /\ gradientMatrix = [n \in 1..PoolNodes |-> Null]
    /\ releasedMatrices = <<>>
    /\ lastHook = [op |-> "none"]
    /\ hookCalls = 0
    /\ PoolOthersIdle

SpecPool == InitPool /\ [][NextPool]_vars

\* Single hook calls.  Node PoolNodes (which has any inputs among the other
\* nodes) is in any state a node can be in: sharable or not (a non-sharable
\* value was created eagerly), output needed during backprop or not,
\* precomputed or not, with a dense or sparse value buffer or none, with a
\* dense or sparse gradient buffer or none.  The other nodes are sharable
\* operator nodes without value buffer, that need a gradient or not and hold
\* a gradient buffer or not.  Node n's value buffer is Matrix object 2n-1, its
\* gradient buffer Matrix object 2n, and one more dense Matrix object is in
\* the pool.  One hook is then called once.
InitHook ==
    /\ m_inputs \in DagInputLists(PoolNodes, PoolNodes)
    /\ g_shareNodeValueMatrices \in BOOLEAN
    /\ \E o \in BOOLEAN :
          m_outputNeededDuringBackprop = [n \in 1..PoolNodes |-> n < PoolNodes \/ o]
    /\ \E sh \in BOOLEAN, vs \in {"none", Dense, Sparse} :
          /\ sh \/ vs # "none"
          /\ m_valueSharable = [n \in 1..PoolNodes |-> n < PoolNodes \/ sh]
          /\ valueMatrix = [n \in 1..PoolNodes |->
                              IF n = PoolNodes /\ vs # "none" THEN 2 * n - 1 ELSE Null]
          /\ \E gs \in {"none", Dense, Sparse}, held \in SUBSET (1..(PoolNodes - 1)) :
                /\ gradientMatrix = [n \in 1..PoolNodes |->
                                       IF (n = PoolNodes /\ gs # "none") \/ n \in held
                                       THEN 2 * n ELSE Null]
                /\ \E needs \in SUBSET (1..(PoolNodes - 1)) :
                      /\ held \subseteq needs
                      /\ m_needsGradient = [n \in 1..PoolNodes |->
                                              n \in needs \/ (n = PoolNodes /\ gs # "none")]
                /\ matrixType = [b \in 1..(2 * PoolNodes + 1) |->
                                   IF b = 2 * PoolNodes - 1 /\ vs = Sparse THEN Sparse
                                   ELSE IF b = 2 * PoolNodes /\ gs = Sparse THEN Sparse
                                   ELSE Dense]
    /\ \E pre \in BOOLEAN : requiresPreCompute = [n \in 1..PoolNodes |-> n = PoolNodes /\ pre]
    /\ releasedMatrices = <<2 * PoolNodes + 1>>
    /\ handedBack = [b \in 1..(2 * PoolNodes + 1) |-> NeverHandedBack]
    /\ lastHook = [op |-> "none"]
    /\ hookCalls = MaxHookCalls - 1
    /\ PoolOthersIdle

SpecHook == InitHook /\ [][NextPool]_vars

\* -------------------------------------------------------- claims, buffer pool

\* the Matrix objects node n references as value or gradient
MatricesOf(n) == {valueMatrix[n], gradientMatrix[n]} \ {Null}

\* the last call was the hook 'op' and touched no null pointer
HookReturned(op) == lastHook.op = op /\ lastHook.err = "none"

\* the last call left the pool and the pointers of every node as they were
HookChangedNothing ==
    /\ releasedMatrices = lastHook.poolBefore
    /\ valueMatrix = lastHook.valueBefore
    /\ gradientMatrix = lastHook.gradientBefore

\* C13: after any sequence of the pool hooks no buffer is referenced as value
\* or gradient by two different nodes at the same time, and a node that has
\* released a buffer to the pool no longer references it.
C13_ExclusiveOwnership ==
    /\ \A a, b \in NodesOf(valueMatrix) : a # b => MatricesOf(a) \cap MatricesOf(b) = {}
    /\ \A n \in NodesOf(valueMatrix) : MatricesOf(n) \cap Range(releasedMatrices) = {}

\* the last call was a request hook of a node that held no buffer of the kind
\* it requests
RequestServed ==
    \/ HookReturned("RequestMatricesBeforeForwardProp")
          /\ lastHook.valueBefore[lastHook.node] = Null
    \/ HookReturned("RequestMatricesBeforeBackprop")
          /\ lastHook.gradientBefore[lastHook.node] = Null

\* the buffer the last (request) call left in the pointer it fills
RequestedPointer ==
    IF lastHook.op = "RequestMatricesBeforeForwardProp"
    THEN valueMatrix[lastHook.node] ELSE gradientMatrix[lastHook.node]

\* C14: after ReleaseMatricesAfterForwardProp has returned a node's dense,
\* sharable value buffer to the pool, a subsequent request to the pool by
\* another node receives that same Matrix object: a request served while the
\* pool holds released buffers receives one of them (no new Matrix is
\* created), and the pool no longer holds it.
C14_ReleasedBufferIsReused ==
    (RequestServed /\ lastHook.poolBefore # <<>>) =>
        /\ Len(lastHook.requested) = 1
        /\ lastHook.requested[1] \in Range(lastHook.poolBefore)
        /\ RequestedPointer = lastHook.requested[1]
        /\ Len(releasedMatrices) = Len(lastHook.poolBefore) - 1

\* C14 witness: a node received the very Matrix object another node had
\* returned by ReleaseMatricesAfterForwardProp (and still points to)
C14_Witness ==
    /\ RequestServed
    /\ Len(lastHook.requested) = 1
    /\ LET b == lastHook.requested[1]
       IN  /\ handedBack[b].op = "ReleaseMatricesAfterForwardProp"
           /\ handedBack[b].node # lastHook.node
           /\ valueMatrix[handedBack[b].node] = b
           /\ RequestedPointer = b

\* the last call was hook 'op' on a node that held a value buffer
HookOnValueHolder(op) ==
    HookReturned(op) /\ lastHook.valueBefore[lastHook.node] # Null

\* the three conditions of ReleaseMatricesAfterForwardProp for node n
MayReleaseValueAfterForwardProp(n) ==
    /\ g_shareNodeValueMatrices /\ ~m_outputNeededDuringBackprop[n]
    /\ matrixType[valueMatrix[n]] = Dense
    /\ m_valueSharable[n]

\* C15: ReleaseMatricesAfterForwardProp returns the node's value buffer to the
\* pool if and only if the output is not needed during backprop (which
\* requires global value sharing to be enabled), the buffer is dense and the
\* value is marked sharable; otherwise pool and node are left unchanged.
C15_ReleaseAfterForwardPropIff ==
    HookReturned("ReleaseMatricesAfterForwardProp") =>
        LET n == lastHook.node
        IN  IF MayReleaseValueAfterForwardProp(n)
            THEN /\ lastHook.released = <<lastHook.valueBefore[n]>>
                 /\ releasedMatrices = Append(lastHook.poolBefore, lastHook.valueBefore[n])
            ELSE /\ lastHook.released = <<>>
                 /\ HookChangedNothing

\* C15 witness: the value buffer of a node was returned to the pool by
\* ReleaseMatricesAfterForwardProp
C15_Witness ==
    /\ HookOnValueHolder("ReleaseMatricesAfterForwardProp")
    /\ MayReleaseValueAfterForwardProp(lastHook.node)
    /\ releasedMatrices[Len(releasedMatrices)] = valueMatrix[lastHook.node]

\* C16: whatever hooks are called, the value buffer of a node marked
\* non-sharable is never handed to the pool, and no sparse buffer is ever
\* handed to the pool.
C16_NonSharableNeverPooled ==
    /\ \A n \in NodesOf(valueMatrix) :
          (~m_valueSharable[n] /\ valueMatrix[n] # Null) =>
              /\ valueMatrix[n] \notin Range(releasedMatrices)
              /\ handedBack[valueMatrix[n]] = NeverHandedBack
    /\ \A b \in Range(releasedMatrices) : matrixType[b] = Dense
    /\ lastHook.op # "none" => \A b \in Range(lastHook.released) : matrixType[b] = Dense

\* C16 witness: a release hook was called on a non-sharable node whose output
\* is not needed during backprop and that holds a dense value buffer and a
\* sparse gradient buffer, and handed nothing to the pool
C16_Witness ==
    /\ lastHook.op \in {"ReleaseMatricesAfterForwardProp", "ReleaseMatricesAfterBackprop"}
    /\ lastHook.err = "none"
    /\ LET n == lastHook.node
       IN  /\ ~m_valueSharable[n] /\ g_shareNodeValueMatrices
           /\ ~IsLeaf(n) /\ ~requiresPreCompute[n]
           /\ valueMatrix[n] # Null /\ matrixType[valueMatrix[n]] = Dense
           /\ gradientMatrix[n] # Null /\ matrixType[gradientMatrix[n]] = Sparse
           /\ lastHook.released = <<>>

\* C17: RequestMatricesBeforeForwardProp takes a buffer from the pool only
\* when the node has no value buffer; when the node already holds one the
\* call leaves the node's buffer and the pool unchanged.
C17_RequestSkippedWhenValueHeld ==
    HookReturned("RequestMatricesBeforeForwardProp") =>
        LET n == lastHook.node
        IN  IF lastHook.valueBefore[n] # Null
            THEN lastHook.requested = <<>> /\ HookChangedNothing
            ELSE /\ Len(lastHook.requested) = 1
                 /\ valueMatrix[n] = lastHook.requested[1]
                 /\ gradientMatrix = lastHook.gradientBefore
                 /\ \A m \in NodesOf(valueMatrix) \ {n} : valueMatrix[m] = lastHook.valueBefore[m]

\* C17 witness: the hook was called on a node with an eagerly created
\* (non-sharable) value buffer while the pool held a buffer
C17_Witness ==
    /\ HookReturned("RequestMatricesBeforeForwardProp")
    /\ ~m_valueSharable[lastHook.node]
    /\ lastHook.valueBefore[lastHook.node] # Null
    /\ lastHook.poolBefore # <<>>

\* the last call asked for a gradient buffer for a node that held one:
\* RequestMatricesBeforeBackprop on such a node, or
\* AllocateGradientMatricesForInputs of a node one of whose inputs needs a
\* gradient and held a buffer or appears twice in the input list
GradientRequestedTwice ==
    \/ /\ lastHook.op = "RequestMatricesBeforeBackprop"
       /\ lastHook.gradientBefore[lastHook.node] # Null
    \/ /\ lastHook.op = "AllocateGradientMatricesForInputs"
       /\ \E i \in 1..Len(m_inputs[lastHook.node]) :
             LET c == m_inputs[lastHook.node][i]
             IN  /\ m_needsGradient[c]
                 /\ \/ lastHook.gradientBefore[c] # Null
                    \/ \E j \in 1..(i - 1) : m_inputs[lastHook.node][j] = c

\* C18 as stated: requesting a gradient buffer for a node that already holds
\* one is reported as a logic error.
C18_SecondRequestRaises ==
    (lastHook.op # "none" /\ GradientRequestedTwice) => lastHook.err = "LogicError"

\* C18 amended: requesting a gradient buffer for a node that already holds
\* one raises no error and is skipped: the node keeps its buffer and nothing is
\* taken from the pool for it.  AllocateGradientMatricesForInputs takes one
\* buffer for each distinct input that needs a gradient and holds none.
C18_SecondRequestSkipped ==
    /\ (lastHook.op = "RequestMatricesBeforeBackprop"
           /\ lastHook.gradientBefore[lastHook.node] # Null) =>
          /\ lastHook.err = "none"
          /\ lastHook.requested = <<>>
          /\ HookChangedNothing
    /\ lastHook.op = "AllocateGradientMatricesForInputs" =>
          LET n == lastHook.node
              lacking == {c \in InputSet(m_inputs, n) :
                             m_needsGradient[c] /\ lastHook.gradientBefore[c] = Null}
          IN  /\ lastHook.err = "none"
              /\ Len(lastHook.requested) = Cardinality(lacking)
              /\ \A c \in NodesOf(gradientMatrix) :
                    IF c \in lacking
                    THEN gradientMatrix[c] \in Range(lastHook.requested)
                    ELSE gradientMatrix[c] = lastHook.gradientBefore[c]
              /\ valueMatrix = lastHook.valueBefore

\* C18 witness: AllocateGradientMatricesForInputs was called on a node that
\* lists the same gradient-needing input twice, and took a single buffer
C18_Witness ==
    /\ lastHook.op = "AllocateGradientMatricesForInputs"
    /\ GradientRequestedTwice
    /\ Len(lastHook.requested) = 1
    /\ \E i, j \in 1..Len(m_inputs[lastHook.node]) :
          /\ i < j
          /\ m_inputs[lastHook.node][i] = m_inputs[lastHook.node][j]
          /\ lastHook.gradientBefore[m_inputs[lastHook.node][i]] = Null
          /\ gradientMatrix[m_inputs[lastHook.node][i]] = lastHook.requested[1]

\* the buffers ReleaseMatricesAfterBackprop is to return for node n, in order
DueAfterBackprop(n) ==
    (IF gradientMatrix[n] # Null /\ matrixType[gradientMatrix[n]] = Dense
     THEN <<gradientMatrix[n]>> ELSE <<>>)
    \o (IF /\ ~g_shareNodeValueMatrices \/ m_outputNeededDuringBackprop[n]
           /\ matrixType[valueMatrix[n]] = Dense
           /\ m_valueSharable[n]
        THEN <<valueMatrix[n]>> ELSE <<>>)

\* C19: ReleaseMatricesAfterBackprop releases nothing for a leaf node or a
\* node that requires pre-computation; for every other node it returns the
\* gradient buffer (when present and dense) and returns the value buffer
\* exactly when it was retained for backward use (output needed during
\* backprop), dense and sharable.
C19_ReleaseAfterBackprop ==
    HookReturned("ReleaseMatricesAfterBackprop") =>
        LET n == lastHook.node
        IN  /\ valueMatrix = lastHook.valueBefore
            /\ gradientMatrix = lastHook.gradientBefore
            /\ IF IsLeaf(n) \/ requiresPreCompute[n]
               THEN lastHook.released = <<>> /\ HookChangedNothing
               ELSE /\ lastHook.released = DueAfterBackprop(n)
                    /\ releasedMatrices = lastHook.poolBefore \o DueAfterBackprop(n)

\* C19 witness: the hook returned both the gradient and the value buffer of a
\* node
C19_Witness ==
    /\ HookOnValueHolder("ReleaseMatricesAfterBackprop")
    /\ Len(lastHook.released) = 2
    /\ lastHook.released[1] = gradientMatrix[lastHook.node]
    /\ lastHook.released[2] = valueMatrix[lastHook.node]

\* ------------------------------------------------------------ AttachInputs
\* Node AttachNodes is the node inputs are attached to.  It declares an arity
\* (it derives from NumInputs<N>) or none, and has the input list an earlier
\* attachment left.  Every node is a ComputationNode<float> or a
\* ComputationNode<double>.

\* the node does not derive from NumInputs<N>
NoArity == -1

\* m_inputs.resize(k): the list cut to k entries or filled up with nullptr
Resize(l, k) == [i \in 1..k |-> IF i <= Len(l) THEN l[i] ELSE Null]

\* UpCast of node c in a ComputationNode of node n's precision succeeds
UpCastSucceeds(n, c) == precision[c] = precision[n]

RECURSIVE AttachFrom(_, _, _, _)
\* the loop of AttachInputs of node n over the entries of 'inputs', from
\* entry i on; l is m_inputs of the node
AttachFrom(n, inputs, l, i) ==
    IF i > Len(l) THEN [inputs |-> l, err |-> "none"]
    ELSE IF inputs[i] = Null THEN AttachFrom(n, inputs, [l EXCEPT ![i] = Null], i + 1)
    ELSE IF UpCastSucceeds(n, inputs[i])
         THEN AttachFrom(n, inputs, [l EXCEPT ![i] = inputs[i]], i + 1)
         ELSE [inputs |-> l, err |-> "InvalidArgument"]

\* an AttachInputs without the check of the number of inputs
AttachInputsOfAnyNumber(n, inputs) ==
    AttachFrom(n, inputs, Resize(m_inputs[n], Len(inputs)), 1)

\* ComputationNode::AttachInputs(inputs) of node n: the list and the error it
\* leaves
AttachInputs(n, inputs) ==
    IF m_numInputs[n] # NoArity /\ m_numInputs[n] # Len(inputs)
    THEN [inputs |-> m_inputs[n], err |-> "RuntimeError"]
    ELSE AttachFrom(n, inputs, Resize(m_inputs[n], Len(inputs)), 1)

InitAttach ==
    /\ precision \in [1..AttachNodes -> {"float", "double"}]
    /\ \E arity \in {NoArity} \cup (0..MaxAttach) :
          /\ m_numInputs = [n \in 1..AttachNodes |-> IF n = AttachNodes THEN arity ELSE NoArity]
          /\ \E prev \in SeqsUpTo((1..AttachNodes) \cup {Null}, MaxAttach) :
                \* what an earlier AttachInputs left (or nothing attached yet)
                /\ arity = NoArity \/ prev = <<>> \/ Len(prev) = arity
                /\ \A i \in 1..Len(prev) :
                      prev[i] # Null => precision[prev[i]] = precision[AttachNodes]
                /\ m_inputs = [n \in 1..AttachNodes |-> IF n = AttachNodes THEN prev ELSE <<>>]
    /\ lastAttach = [op |-> "none"]
    /\ attachInputs = <<>>
    /\ EnumIdle /\ TimeIdle /\ ThreadsIdle /\ GradIdle /\ PoolIdle /\ NodeIdle

\* AttachInputs(inputs) is called on node AttachNodes
CallAttachInputs(inputs) ==
    /\ lastAttach.op = "none"
    /\ m_inputs' = [m_inputs EXCEPT ![AttachNodes] = AttachInputs(AttachNodes, inputs).inputs]
    /\ lastAttach' = [op |-> "AttachInputs", node |-> AttachNodes, inputs |-> inputs,
                      before |-> m_inputs[AttachNodes],
                      err |-> AttachInputs(AttachNodes, inputs).err]
    /\ UNCHANGED <<m_numInputs, precision, attachInputs, enumVars, timeVars, threadVars,
                   gradVars, poolVars, nodeVars>>

NextAttach ==
    \E inputs \in SeqsUpTo((1..AttachNodes) \cup {Null}, MaxAttach) : CallAttachInputs(inputs)

SpecAttach == InitAttach /\ [][NextAttach]_vars

\* ---------------------------------------------------- claims, AttachInputs

\* the last call attached a list whose length differs from the declared arity
ArityMismatch ==
    /\ lastAttach.op = "AttachInputs"
    /\ m_numInputs[lastAttach.node] # NoArity
    /\ m_numInputs[lastAttach.node] # Len(lastAttach.inputs)

\* the last call attached a list of the declared length, or to a node that
\* declares no arity
ArityMatch == lastAttach.op = "AttachInputs" /\ ~ArityMismatch

\* the entries of the attached list that are nodes of another precision
Mismatching ==
    {i \in 1..Len(lastAttach.inputs) :
        /\ lastAttach.inputs[i] # Null
        /\ precision[lastAttach.inputs[i]] # precision[lastAttach.node]}

\* C20 as stated: AttachInputs(list) on a node that declares a fixed arity N
\* fails when the length of list differs from N, and the previously attached
\* input list is then unchanged; when the length matches (or the node declares
\* no arity) the node's input list becomes exactly list, in order.
C20_AttachInputsChecksArity ==
    /\ ArityMismatch =>
          /\ lastAttach.err # "none"
          /\ m_inputs[lastAttach.node] = lastAttach.before
    /\ ArityMatch => m_inputs[lastAttach.node] = lastAttach.inputs

\* C20 amended: as stated when the length differs from the declared arity.
\* When the length matches (or no arity is declared) and every non-null entry
\* of list is a node of the same precision (element type) as the node, the
\* input list becomes exactly list, in order, without error.  When an entry
\* is a node of the other precision, the call fails with an invalid-argument
\* error after the input list was resized to the length of list and the
\* entries before that one were replaced.
C20_AttachInputsChecksArityThenPrecision ==
    /\ ArityMismatch =>
          /\ lastAttach.err = "RuntimeError"
          /\ m_inputs[lastAttach.node] = lastAttach.before
    /\ (ArityMatch /\ Mismatching = {}) =>
          /\ lastAttach.err = "none"
          /\ m_inputs[lastAttach.node] = lastAttach.inputs
    /\ (ArityMatch /\ Mismatching # {}) =>
          LET first == CHOOSE i \in Mismatching : \A j \in Mismatching : i <= j
          IN  /\ lastAttach.err = "InvalidArgument"
              /\ m_inputs[lastAttach.node] =
                    [i \in 1..Len(lastAttach.inputs) |->
                        IF i < first THEN lastAttach.inputs[i]
                        ELSE IF i <= Len(lastAttach.before) THEN lastAttach.before[i]
                        ELSE Null]

\* C20 witness: a list of the wrong length was attached to a node with a
\* declared arity and a non-empty input list, and the call failed
C20_Witness ==
    /\ ArityMismatch
    /\ lastAttach.err = "RuntimeError"
    /\ lastAttach.before # <<>>
    /\ lastAttach.inputs # <<>>
    /\ \E i \in 1..Len(lastAttach.inputs) : lastAttach.inputs[i] \notin Range(lastAttach.before)
    /\ m_inputs[lastAttach.node] = lastAttach.before

\* ------------------------------------------------------- sample shapes, Validate

\* largest rank of a sample shape
MaxRank == 2
\* largest extent of a dimension of a sample shape
MaxDim == 2
\* number of nodes at hand when a node is validated
ValidateNodes == 3

\* the sample shapes within the bounds; the empty sequence is the
\* default-constructed TensorShape
Shapes == SeqsUpTo(0..MaxDim, MaxRank)

RECURSIVE Product(_)
Product(dims) == IF dims = <<>> THEN 1 ELSE Head(dims) * Product(Tail(dims))

\* TensorShape::GetNumElements(): the product of the dimensions, 0 for the
\* shape without dimensions
GetNumElements(shape) == IF shape = <<>> THEN 0 ELSE Product(shape)

GetRank(shape) == Len(shape)

GetSampleMatrixNumRows(n) == GetNumElements(m_sampleLayout[n])

\* the outcome of a call that raised nothing, and of one that raised
NoError == [err |-> "none"]
RuntimeError(what, i) == [err |-> "RuntimeError", what |-> what, input |-> i]

\* the positions of the list l, in order, that satisfy Test(_)
FirstSuchThat(l, Test(_)) ==
    IF \E i \in 1..Len(l) : Test(i)
    THEN CHOOSE i \in 1..Len(l) : Test(i) /\ \A j \in 1..(i-1) : ~Test(j)
    ELSE 0

IsNullInput(n, i) == m_inputs[n][i] = Null
IsEmptyInput(n, i) == GetSampleMatrixNumRows(m_inputs[n][i]) = 0

\* a Validate that looks for unconnected inputs in the final pass only
ValidateNullInFinalPassOnly(n, isFinalValidationPass) ==
    LET nullAt == FirstSuchThat(m_inputs[n], LAMBDA i : IsNullInput(n, i))
        emptyAt == FirstSuchThat(m_inputs[n], LAMBDA i : IsEmptyInput(n, i))
    IN  IF isFinalValidationPass /\ nullAt # 0 THEN RuntimeError("is empty (NULL, not connected)", nullAt)
        ELSE IF isFinalValidationPass /\ nullAt = 0 /\ emptyAt # 0 THEN RuntimeError("has 0 elements", emptyAt)
        ELSE NoError

\* ComputationNodeBase::Validate(isFinalValidationPass): the first loop raises
\* at the first null input; the second loop, of the final pass only, raises at
\* the first input whose sample matrix has no rows
Validate(n, isFinalValidationPass) ==
    LET nullAt == FirstSuchThat(m_inputs[n], LAMBDA i : IsNullInput(n, i))
    IN  IF nullAt # 0 THEN RuntimeError("is empty (NULL, not connected)", nullAt)
        ELSE LET emptyAt == FirstSuchThat(m_inputs[n], LAMBDA i : IsEmptyInput(n, i))
             IN  IF isFinalValidationPass /\ emptyAt # 0
                 THEN RuntimeError("has 0 elements", emptyAt)
                 ELSE NoError

\* the groups of variables the shape, copy and comparison calls leave alone
NodeOthersIdle ==
    /\ EnumIdle /\ TimeIdle /\ ThreadsIdle /\ GradIdle /\ PoolIdle /\ AttachIdle

\* the fields of the node group a call of Validate does not read
NoBuffers(N) ==
    /\ m_nodeName = [n \in N |-> n]
    /\ operationName = [n \in N |-> "Plus"]
    /\ m_deviceId = [n \in N |-> 0]
    /\ m_pMBLayout = <<>>
    /\ m_parameterUpdateRequired = [n \in N |-> FALSE]
    /\ Value = <<>>
    /\ Gradient = <<>>

\* node ValidateNodes has any input list over the other nodes and null; the
\* first node has any sample shape, the others hold one element
InitValidate ==
    /\ NodeOthersIdle
    /\ \E l \in SeqsUpTo((1..(ValidateNodes-1)) \cup {Null}, MaxAttach) :
          m_inputs = [n \in 1..ValidateNodes |-> IF n = ValidateNodes THEN l ELSE <<>>]
    /\ \E shape \in Shapes :
          m_sampleLayout = [n \in 1..ValidateNodes |-> IF n = 1 THEN shape ELSE <<1>>]
    /\ NoBuffers(1..ValidateNodes)
    /\ lastCall = [op |-> "none"]

\* Validate(isFinalValidationPass) is called on node ValidateNodes
CallValidate(isFinalValidationPass) ==
    /\ lastCall.op = "none"
    /\ lastCall' = [op |-> "Validate", node |-> ValidateNodes,
                    isFinalValidationPass |-> isFinalValidationPass,
                    result |-> Validate(ValidateNodes, isFinalValidationPass)]
    /\ UNCHANGED <<m_nodeName, operationName, m_deviceId, m_sampleLayout, m_pMBLayout,
                   m_parameterUpdateRequired, Value, Gradient,
                   m_inputs, enumVars, timeVars, threadVars, gradVars, poolVars, attachVars>>

NextValidate == \E isFinalValidationPass \in BOOLEAN : CallValidate(isFinalValidationPass)

SpecValidate == InitValidate /\ [][NextValidate]_vars

\* ---------------------------------------------------------- claims, Validate

Validated == lastCall.op = "Validate"
HasNullInput(n) == \E i \in 1..Len(m_inputs[n]) : m_inputs[n][i] = Null
HasEmptyInput(n) ==
    \E i \in 1..Len(m_inputs[n]) :
        m_inputs[n][i] # Null /\ GetNumElements(m_sampleLayout[m_inputs[n][i]]) = 0

\* C21: Validate raises an error for a node with a null input in the early
\* pass as well as in the final pass; in the final pass it also raises for an
\* input whose sample shape has zero elements; in every other case, among them
\* a zero-element input in the early pass, it raises nothing.
C21_ValidateRejectsNullAndEmptyInputs ==
    Validated =>
        LET n == lastCall.node
            raised == lastCall.result.err # "none"
        IN  /\ HasNullInput(n) => raised
            /\ (lastCall.isFinalValidationPass /\ HasEmptyInput(n)) => raised
            /\ (~HasNullInput(n) /\ ~(lastCall.isFinalValidationPass /\ HasEmptyInput(n)))
                  => ~raised

\* the early pass accepted a node with a zero-element input
C21_Witness ==
    /\ Validated
    /\ ~lastCall.isFinalValidationPass
    /\ HasEmptyInput(lastCall.node)
    /\ lastCall.result.err = "none"

\* ------------------------------------------------------------------ Duplicate

\* number of nodes at hand before a node is duplicated
CopyNodes == 2

\* enum CopyNodeFlags
copyNodeNull == 0
copyNodeValue == 1
copyNodeChildren == 2
copyNodeAll == 3
copyNodeChildrenCrossNetwork == 4
CopyNodeFlags == {copyNodeNull, copyNodeValue, copyNodeChildren, copyNodeAll,
                  copyNodeChildrenCrossNetwork}

\* flags & f, for a flag f of one bit
HasFlag(flags, f) == (flags \div f) % 2 = 1

\* a null m_value or m_gradient pointer, and a Matrix with its dimensions and
\* the contents of its columns
NoMatrix == [matrix |-> "nullptr"]
Matrix(rows, cols, data) == [rows |-> rows, cols |-> cols, data |-> data]

\* a null m_pMBLayout
NoLayout == [layout |-> "nullptr"]

\* the members of all nodes, as one record the node methods work on; err is
\* what the call raised and ret what it returned
NodeState ==
    [m_nodeName |-> m_nodeName, operationName |-> operationName, m_deviceId |-> m_deviceId,
     m_inputs |-> m_inputs, m_sampleLayout |-> m_sampleLayout, m_pMBLayout |-> m_pMBLayout,
     m_parameterUpdateRequired |-> m_parameterUpdateRequired,
     m_needsGradient |-> m_needsGradient, m_isPartOfLoop |-> m_isPartOfLoop,
     m_evalTimeStamp |-> m_evalTimeStamp, Value |-> Value, Gradient |-> Gradient,
     err |-> "none", ret |-> Null]

\* the name CreateUniqNodeName() makes up
CreateUniqNodeName == "AutoName"

\* NewThis(deviceId, name) called on node 'this': a new node of the class of
\* 'this', as the constructors leave it (no inputs, the default sample shape,
\* no layout, flags cleared, the time stamp reset, no value and no gradient
\* matrix); the new node is the last one
NewThis(st, this, deviceId, name) ==
    [st EXCEPT !.m_nodeName = Append(@, IF name = "" THEN CreateUniqNodeName ELSE name),
               !.operationName = Append(@, st.operationName[this]),
               !.m_deviceId = Append(@, deviceId),
               !.m_inputs = Append(@, <<>>),
               !.m_sampleLayout = Append(@, <<>>),
               !.m_pMBLayout = Append(@, NoLayout),
               !.m_parameterUpdateRequired = Append(@, FALSE),
               !.m_needsGradient = Append(@, FALSE),
               !.m_isPartOfLoop = Append(@, FALSE),
               !.m_evalTimeStamp = Append(@, ResetEvalTimeStamp(s_timeStampCounter)),
               !.Value = Append(@, NoMatrix),
               !.Gradient = Append(@, NoMatrix)]

\* ComputationNetworkOwnedNodeState::CopyTo(other) and TimeStamp::CopyTo(other)
OwnedNodeStateCopyTo(st, this, other) ==
    [st EXCEPT !.m_isPartOfLoop[other] = st.m_isPartOfLoop[this],
               !.m_needsGradient[other] = st.m_needsGradient[this]]
TimeStampCopyTo(st, this, other) ==
    [st EXCEPT !.m_evalTimeStamp[other] = st.m_evalTimeStamp[this]]

\* a ComputationNodeBase::CopyTo that copies the children links whatever the
\* flags
BaseCopyToWithChildren(st, this, node, newName, flags) ==
    IF st.operationName[this] # st.operationName[node]
    THEN [st EXCEPT !.err = "RuntimeError"]
    ELSE LET s1 == [st EXCEPT !.m_inputs[node] = st.m_inputs[this]]
         IN  IF HasFlag(flags, copyNodeValue)
             THEN TimeStampCopyTo(
                    OwnedNodeStateCopyTo(
                      [s1 EXCEPT !.m_deviceId[node] = s1.m_deviceId[this],
                                 !.m_parameterUpdateRequired[node] = s1.m_parameterUpdateRequired[this],
                                 !.m_nodeName[node] = newName,
                                 !.m_sampleLayout[node] = s1.m_sampleLayout[this]],
                      this, node),
                    this, node)
             ELSE s1

\* ComputationNodeBase::CopyTo(node, newName, flags) called on node 'this':
\* it writes members of 'this' into 'node'
BaseCopyTo(st, this, node, newName, flags) ==
    IF st.operationName[this] # st.operationName[node]
    THEN [st EXCEPT !.err = "RuntimeError"]
    ELSE LET s1 == IF HasFlag(flags, copyNodeChildren)
                   THEN [st EXCEPT !.m_inputs[node] = st.m_inputs[this]]
                   ELSE st
         IN  IF HasFlag(flags, copyNodeValue)
             THEN TimeStampCopyTo(
                    OwnedNodeStateCopyTo(
                      [s1 EXCEPT !.m_deviceId[node] = s1.m_deviceId[this],
                                 !.m_parameterUpdateRequired[node] = s1.m_parameterUpdateRequired[this],
                                 !.m_nodeName[node] = newName,
                                 !.m_sampleLayout[node] = s1.m_sampleLayout[this]],
                      this, node),
                    this, node)
             ELSE s1

\* ComputationNode::CopyTo(nodeP, newName, flags) called on node 'this'
\* (*node->m_value and *m_value are dereferenced without a test)
CopyTo(st, this, nodeP, newName, flags) ==
    LET s1 == BaseCopyTo(st, this, nodeP, newName, flags)
    IN  IF s1.err # "none" \/ ~HasFlag(flags, copyNodeValue) THEN s1
        ELSE IF s1.Value[nodeP] = NoMatrix \/ s1.Value[this] = NoMatrix
        THEN NullDereference(s1)
        ELSE LET s2 == [s1 EXCEPT !.Value[nodeP] = s1.Value[this]]
             IN  IF s2.Gradient[this] # NoMatrix
                 THEN IF s2.Gradient[nodeP] = NoMatrix
                      THEN NullDereference(s2)
                      ELSE [s2 EXCEPT !.Gradient[nodeP] = s2.Gradient[this]]
                 ELSE [s2 EXCEPT !.Gradient[nodeP] = NoMatrix]

\* ComputationNode::Duplicate(newName, flags) called on node 'this':
\* node->CopyTo(shared_from_this(), newName, flags) is CopyTo called on the
\* new node, with 'this' as the node written to
Duplicate(st, this, newName, flags) ==
    LET name == IF newName = "" THEN st.m_nodeName[this] ELSE newName
        s1 == NewThis(st, this, st.m_deviceId[this], name)
        node == Len(s1.m_nodeName)
        s2 == CopyTo(s1, node, this, newName, flags)
    IN  [s2 EXCEPT !.ret = node]

\* the matrices a node may hold before it is duplicated
SomeMatrices == {NoMatrix, Matrix(1, 1, <<7>>)}

\* node CopyNodes is the node duplicated: it has any input list over the
\* other nodes and null, any sample shape of rank 1, any flags, an old or a
\* recent time stamp and any of the matrices; the other nodes are leaves
InitCopy ==
    /\ EnumIdle /\ ThreadsIdle /\ PoolIdle /\ AttachIdle
    /\ s_timeStampCounter = MaxStamp /\ m_value = <<>> /\ seenStamps = <<>>
    /\ inputBumped = <<>> /\ lastOp = [op |-> "none"]
    /\ m_gradient = <<>> /\ m_gradientInitialized = <<>> /\ bpPc = "idle" /\ bpOrder = <<>>
    /\ bpPos = 0 /\ bpLog = <<>> /\ bpPass = 0 /\ lastBackprop = [op |-> "none"]
    /\ m_nodeName = [n \in 1..CopyNodes |-> IF n = CopyNodes THEN "original" ELSE "leaf"]
    /\ operationName = [n \in 1..CopyNodes |-> IF n = CopyNodes THEN "Plus" ELSE "InputValue"]
    /\ m_deviceId = [n \in 1..CopyNodes |-> 0]
    /\ m_pMBLayout = [n \in 1..CopyNodes |-> NoLayout]
    /\ \E l \in SeqsUpTo((1..(CopyNodes-1)) \cup {Null}, MaxAttach) :
          m_inputs = [n \in 1..CopyNodes |-> IF n = CopyNodes THEN l ELSE <<>>]
    /\ \E shape \in SeqsUpTo(1..MaxDim, 1) :
          m_sampleLayout = [n \in 1..CopyNodes |-> IF n = CopyNodes THEN shape ELSE <<1>>]
    /\ \E b \in BOOLEAN :
          m_parameterUpdateRequired = [n \in 1..CopyNodes |-> n = CopyNodes /\ b]
    /\ \E b \in BOOLEAN : m_needsGradient = [n \in 1..CopyNodes |-> n = CopyNodes /\ b]
    /\ \E b \in BOOLEAN : m_isPartOfLoop = [n \in 1..CopyNodes |-> n = CopyNodes /\ b]
    /\ \E t \in {0, MaxStamp - 1} :
          m_evalTimeStamp = [n \in 1..CopyNodes |-> IF n = CopyNodes THEN t ELSE 0]
    /\ \E v \in SomeMatrices :
          Value = [n \in 1..CopyNodes |-> IF n = CopyNodes THEN v ELSE NoMatrix]
    /\ \E g \in SomeMatrices :
          Gradient = [n \in 1..CopyNodes |-> IF n = CopyNodes THEN g ELSE NoMatrix]
    /\ lastCall = [op |-> "none"]

\* Duplicate(newName, flags) is called on node CopyNodes
CallDuplicate(newName, flags) ==
    LET r == Duplicate(NodeState, CopyNodes, newName, flags)
    IN  /\ lastCall.op = "none"
        /\ m_nodeName' = r.m_nodeName
        /\ operationName' = r.operationName
        /\ m_deviceId' = r.m_deviceId
        /\ m_inputs' = r.m_inputs
        /\ m_sampleLayout' = r.m_sampleLayout
        /\ m_pMBLayout' = r.m_pMBLayout
        /\ m_parameterUpdateRequired' = r.m_parameterUpdateRequired
        /\ m_needsGradient' = r.m_needsGradient
        /\ m_isPartOfLoop' = r.m_isPartOfLoop
        /\ m_evalTimeStamp' = r.m_evalTimeStamp
        /\ Value' = r.Value
        /\ Gradient' = r.Gradient
        /\ lastCall' = [op |-> "Duplicate", node |-> CopyNodes, newName |-> newName,
                        flags |-> flags, ret |-> r.ret, err |-> r.err, before |-> NodeState]
        /\ UNCHANGED <<s_timeStampCounter, m_value, seenStamps, inputBumped, lastOp,
                       m_gradient, m_gradientInitialized, bpPc, bpOrder, bpPos, bpLog, bpPass,
                       lastBackprop, enumVars, threadVars, poolVars, attachVars>>

NextCopy == \E newName \in {"", "copy"}, flags \in CopyNodeFlags : CallDuplicate(newName, flags)

SpecCopy == InitCopy /\ [][NextCopy]_vars

\* --------------------------------------------------------- claims, Duplicate

Duplicated == lastCall.op = "Duplicate"

\* C22: the node Duplicate returns has, with copyNodeChildren set, the input
\* list the original had, and with copyNodeValue set the original's sample
\* shape, needs-gradient and parameter-update-required flags, time stamp and
\* value and gradient contents.
C22_DuplicateCarriesTheOriginal ==
    (Duplicated /\ lastCall.err = "none") =>
        LET o == lastCall.node
            c == lastCall.ret
            b == lastCall.before
        IN  /\ HasFlag(lastCall.flags, copyNodeChildren) => m_inputs[c] = b.m_inputs[o]
            /\ HasFlag(lastCall.flags, copyNodeValue) =>
                  /\ m_sampleLayout[c] = b.m_sampleLayout[o]
                  /\ m_needsGradient[c] = b.m_needsGradient[o]
                  /\ m_parameterUpdateRequired[c] = b.m_parameterUpdateRequired[o]
                  /\ m_evalTimeStamp[c] = b.m_evalTimeStamp[o]
                  /\ Value[c] = b.Value[o]
                  /\ Gradient[c] = b.Gradient[o]

\* C30: after Duplicate, whatever the flags, the original's name, input list,
\* sample shape, needs-gradient, part-of-loop and parameter-update-required
\* flags, time stamp and value and gradient contents are what they were before.
C30_DuplicateLeavesTheOriginal ==
    Duplicated =>
        LET o == lastCall.node
            b == lastCall.before
        IN  /\ m_nodeName[o] = b.m_nodeName[o]
            /\ m_inputs[o] = b.m_inputs[o]
            /\ m_sampleLayout[o] = b.m_sampleLayout[o]
            /\ m_needsGradient[o] = b.m_needsGradient[o]
            /\ m_isPartOfLoop[o] = b.m_isPartOfLoop[o]
            /\ m_parameterUpdateRequired[o] = b.m_parameterUpdateRequired[o]
            /\ m_evalTimeStamp[o] = b.m_evalTimeStamp[o]
            /\ Value[o] = b.Value[o]
            /\ Gradient[o] = b.Gradient[o]

\* ------------------------------------------------------------------ IsEqualTo

\* number of nodes at hand when two nodes are compared
EqualNodes == 4

NodeName(n) == m_nodeName[n]
OperationName(n) == operationName[n]

RECURSIVE IsEqualToRecursive(_, _)
\* an IsEqualTo that compares the inputs with IsEqualTo instead of comparing
\* the pointers
IsEqualToRecursive(n, other) ==
    IF OperationName(n) # OperationName(other) \/ Len(m_inputs[n]) # Len(m_inputs[other])
    THEN FALSE
    ELSE IF NodeName(n) = NodeName(other) THEN TRUE
    ELSE IF IsLeaf(n) /\ IsLeaf(other) THEN FALSE
    ELSE \A i \in 1..Len(m_inputs[n]) :
            IsEqualToRecursive(m_inputs[n][i], m_inputs[other][i])

\* ComputationNodeBase::IsEqualTo(other) called on node n; m_inputs[i] ==
\* other->m_inputs[i] compares two shared_ptr, that is, the identity of the
\* two input nodes
IsEqualTo(n, other) ==
    IF OperationName(n) # OperationName(other) \/ Len(m_inputs[n]) # Len(m_inputs[other])
    THEN FALSE
    ELSE IF NodeName(n) = NodeName(other) THEN TRUE
    ELSE IF IsLeaf(n) /\ IsLeaf(other) THEN FALSE
    ELSE \A i \in 1..Len(m_inputs[n]) : m_inputs[n][i] = m_inputs[other][i]

\* the two nodes compared are the last two; the others are leaves
Compared == {EqualNodes - 1, EqualNodes}
Leaves == 1..(EqualNodes - 2)

\* the leaves are input nodes with any of two names (two leaves may be equal
\* in all but identity); the two nodes compared have any operation of two, any
\* input lists over the leaves, and the same or different names
InitEqual ==
    /\ NodeOthersIdle
    /\ \E la \in SeqsUpTo(Leaves, MaxAttach), lb \in SeqsUpTo(Leaves, MaxAttach) :
          m_inputs = [n \in 1..EqualNodes |->
                         IF n = EqualNodes THEN la ELSE IF n = EqualNodes - 1 THEN lb ELSE <<>>]
    /\ \E leafName \in [Leaves -> {"x", "y"}], name \in {"a", "b"} :
          m_nodeName = [n \in 1..EqualNodes |->
                           IF n \in Leaves THEN leafName[n]
                           ELSE IF n = EqualNodes THEN "a" ELSE name]
    /\ \E op \in [Compared -> {"Plus", "Times"}] :
          operationName = [n \in 1..EqualNodes |-> IF n \in Leaves THEN "InputValue" ELSE op[n]]
    /\ m_deviceId = [n \in 1..EqualNodes |-> 0]
    /\ m_sampleLayout = [n \in 1..EqualNodes |-> <<1>>]
    /\ m_pMBLayout = <<>>
    /\ m_parameterUpdateRequired = [n \in 1..EqualNodes |-> FALSE]
    /\ Value = <<>>
    /\ Gradient = <<>>
    /\ lastCall = [op |-> "none"]

\* n.IsEqualTo(other) is called
CallIsEqualTo(n, other) ==
    /\ lastCall.op = "none"
    /\ lastCall' = [op |-> "IsEqualTo", node |-> n, other |-> other, ret |-> IsEqualTo(n, other)]
    /\ UNCHANGED <<m_nodeName, operationName, m_deviceId, m_sampleLayout, m_pMBLayout,
                   m_parameterUpdateRequired, Value, Gradient,
                   m_inputs, enumVars, timeVars, threadVars, gradVars, poolVars, attachVars>>

NextEqual == \E n \in Compared, other \in Compared : CallIsEqualTo(n, other)

SpecEqual == InitEqual /\ [][NextEqual]_vars

\* --------------------------------------------------------- claims, IsEqualTo

ComparedNodes == lastCall.op = "IsEqualTo"
SameOperationAndCount(a, b) ==
    operationName[a] = operationName[b] /\ Len(m_inputs[a]) = Len(m_inputs[b])
BothLeaves(a, b) == m_inputs[a] = <<>> /\ m_inputs[b] = <<>>
\* the inputs of a and b are pairwise equal under IsEqualTo
InputsPairwiseEqual(a, b) ==
    \A i \in 1..Len(m_inputs[a]) : IsEqualTo(m_inputs[a][i], m_inputs[b][i])
\* the inputs of a and b are pairwise the same node
InputsPairwiseSame(a, b) ==
    \A i \in 1..Len(m_inputs[a]) : m_inputs[a][i] = m_inputs[b][i]

\* C23 as claimed: for two nodes of the same operation and input count,
\* IsEqualTo returns true when the names are equal or the inputs are pairwise
\* equal under IsEqualTo (distinct but structurally equal inputs count as
\* equal); it returns false when operations or input counts differ or when
\* both are leaves with different names.
C23_EqualWhenInputsStructurallyEqual ==
    ComparedNodes =>
        LET a == lastCall.node
            b == lastCall.other
        IN  /\ (/\ SameOperationAndCount(a, b)
                /\ \/ m_nodeName[a] = m_nodeName[b]
                   \/ ~BothLeaves(a, b) /\ InputsPairwiseEqual(a, b)) => lastCall.ret
            /\ (\/ ~SameOperationAndCount(a, b)
                \/ BothLeaves(a, b) /\ m_nodeName[a] # m_nodeName[b]) => ~lastCall.ret

\* C23, amended: IsEqualTo returns true exactly when the two nodes have the
\* same operation and input count and either equal names or, unless both are
\* leaves, pairwise the same nodes as inputs; inputs that are distinct nodes
\* make it return false even when they are structurally equal.
C23_EqualWhenInputsAreTheSameNodes ==
    ComparedNodes =>
        LET a == lastCall.node
            b == lastCall.other
        IN  lastCall.ret <=>
                /\ SameOperationAndCount(a, b)
                /\ \/ m_nodeName[a] = m_nodeName[b]
                   \/ ~BothLeaves(a, b) /\ InputsPairwiseSame(a, b)

\* two differently named nodes of the same operation were compared whose
\* inputs are distinct nodes, equal under IsEqualTo, and the answer was false
C23_Witness ==
    /\ ComparedNodes
    /\ lastCall.node # lastCall.other
    /\ SameOperationAndCount(lastCall.node, lastCall.other)
    /\ m_nodeName[lastCall.node] # m_nodeName[lastCall.other]
    /\ m_inputs[lastCall.node] # <<>>
    /\ InputsPairwiseEqual(lastCall.node, lastCall.other)
    /\ ~InputsPairwiseSame(lastCall.node, lastCall.other)
    /\ ~lastCall.ret

\* ------------------------------------------------- buffer sizes, BeginForwardProp

\* largest number of time steps and of parallel sequences of a layout
MaxTimeSteps == 2
MaxSequences == 2

\* an MBLayout: its number of time steps, its number of parallel sequences and
\* its gaps, the columns <<s, t>> that hold no sample
MBLayout(T, S, gaps) == [numTimeSteps |-> T, numParallelSequences |-> S, gaps |-> gaps]

\* the layouts without gaps
FullLayouts == {MBLayout(T, S, {}) : T \in 1..MaxTimeSteps, S \in 1..MaxSequences}

\* MBLayout::GetNumCols(): one column per time step and parallel sequence
GetNumCols(layout) == layout.numTimeSteps * layout.numParallelSequences

HasMBLayout(st, n) == st.m_pMBLayout[n] # NoLayout

GetSampleMatrixNumCols(st, n) ==
    IF HasMBLayout(st, n) THEN GetNumCols(st.m_pMBLayout[n]) ELSE 1

\* a DetermineDataSize that takes the sample-matrix view with or without a layout
DetermineDataSizeOfSampleMatrix(st, n) ==
    [rows |-> GetNumElements(st.m_sampleLayout[n]), cols |-> GetSampleMatrixNumCols(st, n)]

\* ComputationNode::DetermineDataSize: with a layout the sample matrix; without
\* one the first dimension as rows and all the others as columns
DetermineDataSize(st, n) ==
    IF HasMBLayout(st, n)
    THEN [rows |-> GetNumElements(st.m_sampleLayout[n]), cols |-> GetSampleMatrixNumCols(st, n)]
    ELSE LET shape == st.m_sampleLayout[n]
             rows == IF GetRank(shape) > 0 THEN shape[1] ELSE 0
         IN  [rows |-> rows,
              cols |-> IF rows > 0 THEN GetNumElements(shape) \div rows ELSE 0]

\* Matrix::Resize(rows, cols): the contents are kept when the size is; the
\* model leaves zeros in a matrix whose size changed
MatrixResize(m, rows, cols) ==
    IF m.rows = rows /\ m.cols = cols THEN m
    ELSE Matrix(rows, cols, [c \in 1..cols |-> 0])

\* Matrix::VerifySize(rows, cols)
VerifySize(m, rows, cols) == m.rows = rows /\ m.cols = cols

\* UpdateDataSize(m) with m = Value() or Gradient(): 'field' names the pointer
\* that is dereferenced
UpdateDataSize(st, field, n) ==
    IF st[field][n] = NoMatrix THEN NullDereference(st)
    ELSE LET size == DetermineDataSize(st, n)
         IN  [st EXCEPT ![field][n] = MatrixResize(@, size.rows, size.cols)]

VerifyDataSize(st, field, n) ==
    IF st[field][n] = NoMatrix THEN NullDereference(st)
    ELSE LET size == DetermineDataSize(st, n)
         IN  IF VerifySize(st[field][n], size.rows, size.cols) THEN st
             ELSE [st EXCEPT !.err = "LogicError"]

UpdateFunctionValuesSize(st, n) == UpdateDataSize(st, "Value", n)

\* ComputationNode::BeginForwardProp (the base class version only traces, and
\* UpdateFunctionMBSize does nothing in ComputationNode)
BeginForwardProp(st, n) ==
    LET s1 == IF ~IsLeaf(n) /\ ~requiresPreCompute[n]
              THEN UpdateFunctionValuesSize(st, n)
              ELSE st
    IN  IF s1.err # "none" THEN s1 ELSE VerifyDataSize(s1, "Value", n)

\* number of nodes at hand when buffers are sized
SizeNodes == 2

\* a matrix of the given size
MatrixOfSize(rows, cols) == Matrix(rows, cols, [c \in 1..cols |-> 0])

\* the buffers a node may hold before it is sized: none, one of the size
\* DetermineDataSize gives, an empty one, or one with a row or a column more
\* (a buffer shared with, or sized for, something else)
BuffersFor(size) ==
    {NoMatrix, MatrixOfSize(size.rows, size.cols), MatrixOfSize(0, 0),
     MatrixOfSize(size.rows + 1, size.cols), MatrixOfSize(size.rows, size.cols + 1)}

\* the variables of the other groups a sizing call reads: the input list
\* (IsLeaf) and RequiresPreCompute(); node SizeNodes, the node sized, is a
\* leaf or has the first node as input
SizedNodeIs(leaf, preCompute) ==
    /\ EnumIdle /\ TimeIdle /\ ThreadsIdle /\ AttachIdle
    /\ m_inputs = [n \in 1..SizeNodes |-> IF n = SizeNodes /\ ~leaf THEN <<1>> ELSE <<>>]
    /\ g_shareNodeValueMatrices = FALSE /\ m_valueSharable = <<>>
    /\ m_outputNeededDuringBackprop = <<>>
    /\ requiresPreCompute = [n \in 1..SizeNodes |-> n = SizeNodes /\ preCompute]
    /\ valueMatrix = <<>> /\ gradientMatrix = <<>> /\ matrixType = <<>>
    /\ releasedMatrices = <<>> /\ handedBack = <<>> /\ lastHook = [op |-> "none"]
    /\ hookCalls = 0
    /\ m_nodeName = [n \in 1..SizeNodes |-> n]
    /\ operationName = [n \in 1..SizeNodes |-> "Plus"]
    /\ m_deviceId = [n \in 1..SizeNodes |-> 0]
    /\ m_parameterUpdateRequired = [n \in 1..SizeNodes |-> FALSE]

\* node SizeNodes has any sample shape, any layout without gaps or none, and
\* any of the buffers as value
InitForward ==
    /\ GradIdle
    /\ \E leaf \in BOOLEAN, preCompute \in BOOLEAN : SizedNodeIs(leaf, preCompute)
    /\ \E shape \in Shapes, layout \in {NoLayout} \cup FullLayouts :
          /\ m_sampleLayout = [n \in 1..SizeNodes |-> IF n = SizeNodes THEN shape ELSE <<1>>]
          /\ m_pMBLayout = [n \in 1..SizeNodes |-> IF n = SizeNodes THEN layout ELSE NoLayout]
          /\ \E v \in BuffersFor(DetermineDataSize(
                          [m_sampleLayout |-> <<shape>>, m_pMBLayout |-> <<layout>>], 1)) :
                Value = [n \in 1..SizeNodes |-> IF n = SizeNodes THEN v ELSE MatrixOfSize(1, 1)]
    /\ Gradient = [n \in 1..SizeNodes |-> NoMatrix]
    /\ lastCall = [op |-> "none"]

\* the members a sizing call works on (the flags of the gradient group are
\* not in use)
SizeState ==
    [m_sampleLayout |-> m_sampleLayout, m_pMBLayout |-> m_pMBLayout,
     Value |-> Value, Gradient |-> Gradient, err |-> "none"]

\* BeginForwardProp() is called on node SizeNodes
CallBeginForwardProp ==
    LET r == BeginForwardProp(SizeState, SizeNodes)
    IN  /\ lastCall.op = "none"
        /\ Value' = r.Value
        /\ lastCall' = [op |-> "BeginForwardProp", node |-> SizeNodes, err |-> r.err,
                        before |-> Value[SizeNodes]]
        /\ UNCHANGED <<m_nodeName, operationName, m_deviceId, m_sampleLayout, m_pMBLayout,
                       m_parameterUpdateRequired, Gradient,
                       m_inputs, enumVars, timeVars, threadVars, gradVars, poolVars, attachVars>>

NextForward == CallBeginForwardProp

SpecForward == InitForward /\ [][NextForward]_vars

\* -------------------------------------------------- claims, BeginForwardProp

ForwardBegun == lastCall.op = "BeginForwardProp" /\ lastCall.err = "none"

\* C24 as claimed: after BeginForwardProp returns without error the value
\* buffer has (element count of the sample shape) rows and (column count of
\* the layout, or 1 without a layout) columns.
C24_ValueIsSampleMatrix ==
    ForwardBegun =>
        LET n == lastCall.node
        IN  /\ Value[n].rows = GetNumElements(m_sampleLayout[n])
            /\ Value[n].cols = IF m_pMBLayout[n] # NoLayout
                               THEN GetNumCols(m_pMBLayout[n]) ELSE 1

\* C24, amended: after BeginForwardProp returns without error the value
\* buffer has, for a node with a layout, (element count of the sample shape)
\* rows and (column count of the layout) columns, and for a node without a
\* layout (first dimension of the sample shape) rows and (element count
\* divided by the first dimension) columns, 0 by 0 when the shape is empty
\* or its first dimension is 0; for a non-leaf, non-precompute node this
\* holds whatever the buffer's dimensions were before the call.
C24_ValueHasDeterminedSize ==
    /\ ForwardBegun =>
          LET n == lastCall.node
              shape == m_sampleLayout[n]
          IN  IF m_pMBLayout[n] # NoLayout
              THEN /\ Value[n].rows = GetNumElements(shape)
                   /\ Value[n].cols = GetNumCols(m_pMBLayout[n])
              ELSE IF shape = <<>> \/ shape[1] = 0
              THEN Value[n].rows = 0 /\ Value[n].cols = 0
              ELSE /\ Value[n].rows = shape[1]
                   /\ Value[n].cols * shape[1] = GetNumElements(shape)
    /\ (/\ lastCall.op = "BeginForwardProp"
        /\ m_inputs[lastCall.node] # <<>> /\ ~requiresPreCompute[lastCall.node]
        /\ lastCall.before # NoMatrix) => lastCall.err = "none"

\* a non-leaf, non-precompute node without a layout and with a sample shape
\* of several columns was given its size, which its buffer did not have before
C24_Witness ==
    /\ ForwardBegun
    /\ m_inputs[lastCall.node] # <<>> /\ ~requiresPreCompute[lastCall.node]
    /\ m_pMBLayout[lastCall.node] = NoLayout
    /\ Value[lastCall.node].cols > 1
    /\ Value[lastCall.node].rows # lastCall.before.rows

\* ----------------------------------------------------- size of the gradient buffer

\* the members the sizing of the gradient works on
GradientSizeState ==
    [m_sampleLayout |-> m_sampleLayout, m_pMBLayout |-> m_pMBLayout,
     Value |-> Value, Gradient |-> Gradient,
     m_needsGradient |-> m_needsGradient, m_gradientInitialized |-> m_gradientInitialized,
     err |-> "none"]

\* what MatrixPool::Request may hand out: a new, empty Matrix or a buffer
\* another node has released, of the size that node gave it
PooledBuffers == {MatrixOfSize(0, 0), MatrixOfSize(1, 1)}

\* RequestMatricesBeforeBackprop -> RequestMatrixFromPool(m_gradient, pool),
\* the pool handing out 'buffer'
RequestGradientFromPool(st, n, buffer) ==
    IF st.Gradient[n] = NoMatrix THEN [st EXCEPT !.Gradient[n] = buffer] ELSE st

\* CreateGradientMatrixIfNull -> CreateMatrixIfNull(m_gradient)
CreateGradientMatrixIfNull(st, n) ==
    IF st.Gradient[n] = NoMatrix THEN [st EXCEPT !.Gradient[n] = MatrixOfSize(0, 0)] ELSE st

\* Matrix::SetValue(0)
SetValueZero(m) == [m EXCEPT !.data = [c \in 1..m.cols |-> 0]]

\* a LazyZeroGradient that zeroes the buffer without giving it its size
ZeroGradientLeavingItsSize(st, n) ==
    IF ~st.m_needsGradient[n] THEN Raise(st)
    ELSE IF st.m_gradientInitialized[n] THEN st
    ELSE IF st.Gradient[n] = NoMatrix THEN NullDereference(st)
    ELSE [st EXCEPT !.Gradient[n] = SetValueZero(@), !.m_gradientInitialized[n] = TRUE]

\* ComputationNode::LazyZeroGradient with the sizes of the buffers:
\* UpdateDataSize(Gradient()); Gradient().SetValue(0)
ResizeAndZeroGradient(st, n) ==
    IF ~st.m_needsGradient[n] THEN Raise(st)
    ELSE IF st.m_gradientInitialized[n] THEN st
    ELSE LET s1 == UpdateDataSize(st, "Gradient", n)
         IN  IF s1.err # "none" THEN s1
             ELSE [s1 EXCEPT !.Gradient[n] = SetValueZero(@), !.m_gradientInitialized[n] = TRUE]

\* LinkToMBLayout(pMBLayout)
LinkToMBLayout(st, n, pMBLayout) == [st EXCEPT !.m_pMBLayout[n] = pMBLayout]

\* the effect on node n of ZeroGradientsOfInputs() called on a parent of n
ClearGradientInitialized(st, n) == [st EXCEPT !.m_gradientInitialized[n] = FALSE]

\* the sample shapes the node sized over several minibatches may have
SizedShapes == {<<1>>, <<MaxDim>>, <<1, MaxDim>>}

\* node SizeNodes has one of the shapes, any layout without gaps or none, no
\* buffers yet or an empty value buffer, and needs a gradient or not
InitGradientSize ==
    /\ \E leaf \in BOOLEAN : SizedNodeIs(leaf, FALSE)
    /\ \E shape \in SizedShapes, layout \in {NoLayout} \cup FullLayouts :
          /\ m_sampleLayout = [n \in 1..SizeNodes |-> IF n = SizeNodes THEN shape ELSE <<1>>]
          /\ m_pMBLayout = [n \in 1..SizeNodes |-> IF n = SizeNodes THEN layout ELSE NoLayout]
    /\ \E v \in {NoMatrix, MatrixOfSize(0, 0)} :
          Value = [n \in 1..SizeNodes |-> IF n = SizeNodes THEN v ELSE MatrixOfSize(1, 1)]
    /\ Gradient = [n \in 1..SizeNodes |-> NoMatrix]
    /\ \E b \in BOOLEAN : m_needsGradient = [n \in 1..SizeNodes |-> n = SizeNodes /\ b]
    /\ m_gradientInitialized = [n \in 1..SizeNodes |-> FALSE]
    /\ m_isPartOfLoop = <<>> /\ m_gradient = <<>> /\ bpPc = "idle" /\ bpOrder = <<>>
    /\ bpPos = 0 /\ bpLog = <<>> /\ bpPass = 0 /\ lastBackprop = [op |-> "none"]
    /\ lastCall = [op |-> "none", err |-> "none"]

\* the call 'op' on node SizeNodes leaves the members r; no call follows one
\* that raised
SizingOutcome(op, r) ==
    /\ lastCall.err = "none"
    /\ m_pMBLayout' = r.m_pMBLayout
    /\ Value' = r.Value
    /\ Gradient' = r.Gradient
    /\ m_gradientInitialized' = r.m_gradientInitialized
    /\ lastCall' = [op |-> op, node |-> SizeNodes, err |-> r.err,
                    wasInitialized |-> m_gradientInitialized[SizeNodes]]
    /\ UNCHANGED <<m_nodeName, operationName, m_deviceId, m_sampleLayout,
                   m_parameterUpdateRequired, m_needsGradient, m_isPartOfLoop, m_gradient,
                   bpPc, bpOrder, bpPos, bpLog, bpPass, lastBackprop,
                   m_inputs, enumVars, timeVars, threadVars, poolVars, attachVars>>

StepBeginForwardProp ==
    SizingOutcome("BeginForwardProp", BeginForwardProp(GradientSizeState, SizeNodes))
StepRequestMatricesBeforeBackprop ==
    \E buffer \in PooledBuffers :
        SizingOutcome("RequestMatricesBeforeBackprop",
                      RequestGradientFromPool(GradientSizeState, SizeNodes, buffer))
StepCreateGradientMatrixIfNull ==
    SizingOutcome("CreateGradientMatrixIfNull",
                  CreateGradientMatrixIfNull(GradientSizeState, SizeNodes))
StepLazyZeroGradient ==
    SizingOutcome("LazyZeroGradient", ResizeAndZeroGradient(GradientSizeState, SizeNodes))
\* the next minibatch has another layout
StepLinkToMBLayout ==
    \E layout \in FullLayouts :
        /\ m_pMBLayout[SizeNodes] # NoLayout
        /\ SizingOutcome("LinkToMBLayout", LinkToMBLayout(GradientSizeState, SizeNodes, layout))
StepZeroGradientsOfInputs ==
    SizingOutcome("ZeroGradientsOfInputs", ClearGradientInitialized(GradientSizeState, SizeNodes))

NextGradientSize ==
    \/ StepBeginForwardProp
    \/ StepRequestMatricesBeforeBackprop
    \/ StepCreateGradientMatrixIfNull
    \/ StepLazyZeroGradient
    \/ StepLinkToMBLayout
    \/ StepZeroGradientsOfInputs

SpecGradientSize == InitGradientSize /\ [][NextGradientSize]_vars

\* ------------------------------------------------ claims, gradient buffer size

SameSize(a, b) == a.rows = b.rows /\ a.cols = b.cols

\* the value buffer has the size of the node's present shape and layout
ValueIsSized(n) ==
    /\ Value[n] # NoMatrix
    /\ SameSize(Value[n], DetermineDataSize(GradientSizeState, n))

\* C25 as claimed: whenever a node holds a gradient buffer, also before the
\* first LazyZeroGradient of the minibatch, the gradient buffer has the
\* dimensions of the node's value buffer.
C25_GradientAlwaysSizedAsValue ==
    \A n \in DOMAIN Gradient :
        (Gradient[n] # NoMatrix /\ Value[n] # NoMatrix) => SameSize(Gradient[n], Value[n])

\* C25, amended: right after a LazyZeroGradient that found the gradient not
\* yet initialized in this minibatch and returned without error, the gradient
\* buffer has the dimensions of the value buffer, provided the value buffer
\* has been sized for the node's present shape and layout.
C25_GradientSizedAsValueByLazyZero ==
    (/\ lastCall.op = "LazyZeroGradient" /\ lastCall.err = "none"
     /\ ~lastCall.wasInitialized
     /\ ValueIsSized(lastCall.node))
        => /\ Gradient[lastCall.node] # NoMatrix
           /\ SameSize(Gradient[lastCall.node], Value[lastCall.node])

\* LazyZeroGradient gave the gradient buffer the size of the value buffer,
\* which is not the size of any buffer the pool hands out
C25_Witness ==
    /\ lastCall.op = "LazyZeroGradient" /\ lastCall.err = "none"
    /\ ~lastCall.wasInitialized
    /\ ValueIsSized(lastCall.node)
    /\ SameSize(Gradient[lastCall.node], Value[lastCall.node])
    /\ \A b \in PooledBuffers : ~SameSize(Gradient[lastCall.node], b)

\* ----------------------------------------------------------- ReducesInTimeWrt

\* a ReducesInTimeWrt that also answers true for equal column counts
ReducesInTimeWrtOrEqual(st, n, other) ==
    GetSampleMatrixNumCols(st, n) <= GetSampleMatrixNumCols(st, other)

\* ComputationNodeBase::ReducesInTimeWrt(other) called on node n
ReducesInTimeWrt(st, n, other) ==
    GetSampleMatrixNumCols(st, n) < GetSampleMatrixNumCols(st, other)

\* every node has any layout without gaps, or none
InitReduce ==
    /\ GradIdle
    /\ SizedNodeIs(TRUE, FALSE)
    /\ m_sampleLayout = [n \in 1..SizeNodes |-> <<1>>]
    /\ m_pMBLayout \in [1..SizeNodes -> {NoLayout} \cup FullLayouts]
    /\ Value = [n \in 1..SizeNodes |-> NoMatrix]
    /\ Gradient = [n \in 1..SizeNodes |-> NoMatrix]
    /\ lastCall = [op |-> "none"]

\* n.ReducesInTimeWrt(other) is called
CallReducesInTimeWrt(n, other) ==
    /\ lastCall.op = "none"
    /\ lastCall' = [op |-> "ReducesInTimeWrt", node |-> n, other |-> other,
                    ret |-> ReducesInTimeWrt(SizeState, n, other)]
    /\ UNCHANGED <<m_nodeName, operationName, m_deviceId, m_sampleLayout, m_pMBLayout,
                   m_parameterUpdateRequired, Value, Gradient,
                   m_inputs, enumVars, timeVars, threadVars, gradVars, poolVars, attachVars>>

NextReduce == \E n \in 1..SizeNodes, other \in 1..SizeNodes : CallReducesInTimeWrt(n, other)

SpecReduce == InitReduce /\ [][NextReduce]_vars

\* ---------------------------------------------------- claims, ReducesInTimeWrt

\* the column count of the sample matrix of node n: that of its layout, or 1
ColumnCount(n) ==
    IF m_pMBLayout[n] = NoLayout THEN 1
    ELSE m_pMBLayout[n].numTimeSteps * m_pMBLayout[n].numParallelSequences

\* C26: ReducesInTimeWrt(other) is true exactly when this node's column count
\* (that of its layout, or 1 without a layout) is strictly smaller than
\* other's; it is false for a node against itself and never true in both
\* directions for a pair of nodes.
C26_ReducesIffFewerColumns ==
    lastCall.op = "ReducesInTimeWrt" =>
        /\ lastCall.ret <=> ColumnCount(lastCall.node) < ColumnCount(lastCall.other)
        /\ lastCall.node = lastCall.other => ~lastCall.ret
        /\ ~(lastCall.ret /\ ReducesInTimeWrt(SizeState, lastCall.other, lastCall.node))

\* a node without a layout was found to reduce in time with respect to a
\* node with a layout of several columns
C26_Witness ==
    /\ lastCall.op = "ReducesInTimeWrt"
    /\ lastCall.ret
    /\ m_pMBLayout[lastCall.node] = NoLayout
    /\ m_pMBLayout[lastCall.other] # NoLayout
    /\ ~ReducesInTimeWrt(SizeState, lastCall.other, lastCall.node)

\* ---------------------------------------------- frame ranges, DataFor and masking

\* a layout with T time steps and S parallel sequences has the columns
\* 1..T*S; the column of sequence s at time step t (both counted from 0)
ColumnOf(layout, s, t) == t * layout.numParallelSequences + s + 1

\* the columns of a layout that are gaps
GapColumns(layout) == {ColumnOf(layout, g[1], g[2]) : g \in layout.gaps}

\* the columns of a layout the FrameRange fr selects
ColumnsIn(layout, fr) ==
    IF IsAllFrames(fr) THEN 1..GetNumCols(layout)
    ELSE {ColumnOf(layout, s, fr.timeIdxInSeq) : s \in 0..(layout.numParallelSequences - 1)}
         \cap (1..GetNumCols(layout))

\* the layouts within the bounds, with every set of gaps
Layouts ==
    UNION {{MBLayout(T, S, gaps) : gaps \in SUBSET ((0..(S-1)) \X (0..(T-1)))} :
              T \in 1..MaxTimeSteps, S \in 1..MaxSequences}

\* the frame ranges the calls are made with
TimeSteps == {AllFrames} \cup {FrameRange(t) : t \in 0..(MaxTimeSteps - 1)}

\* the members the frame-range calls work on; ret is the Matrix or number a
\* call returned and errNode the node name an error message gives
NoName == 0
FrameState ==
    [m_pMBLayout |-> m_pMBLayout, Value |-> Value, Gradient |-> Gradient,
     err |-> "none", errNode |-> NoName, ret |-> NoMatrix]

\* Matrix::ColumnSlice over the set of columns 'cols' (a range)
ColumnSlice(m, cols) ==
    LET first == IF cols = {} THEN 1 ELSE CHOOSE c \in cols : \A d \in cols : c <= d
    IN  Matrix(m.rows, Cardinality(cols), [c \in 1..Cardinality(cols) |-> m.data[first + c - 1]])

\* DataWithMBLayoutFor(data, fr, pMBLayout): the slice of 'data' that fr
\* selects, or a logic_error: a single time step of data without layout, or
\* a time step the layout does not have
DataWithMBLayoutFor(st, data, fr, pMBLayout) ==
    IF pMBLayout = NoLayout
    THEN IF IsAllFrames(fr) THEN [st EXCEPT !.ret = data]
         ELSE [st EXCEPT !.err = "logic_error"]
    ELSE IF IsAllFrames(fr) THEN [st EXCEPT !.ret = data]
    ELSE IF fr.timeIdxInSeq >= pMBLayout.numTimeSteps THEN [st EXCEPT !.err = "logic_error"]
    ELSE [st EXCEPT !.ret = ColumnSlice(data, ColumnsIn(pMBLayout, fr))]

\* a DataFor that lets the logic_error of DataWithMBLayoutFor through as it is
DataForWithoutRethrow(st, n, data, fr) ==
    DataWithMBLayoutFor(st, data, fr, st.m_pMBLayout[n])

\* ComputationNode::DataFor(data, fr) called on node n: a logic_error is
\* caught and raised again as LogicError with the node's name attached
DataFor(st, n, data, fr) ==
    LET r == DataWithMBLayoutFor(st, data, fr, st.m_pMBLayout[n])
    IN  IF r.err = "logic_error"
        THEN [r EXCEPT !.err = "LogicError", !.errNode = NodeName(n)]
        ELSE r

\* ValueFor(fr) and GradientFor(fr): DataFor(Value(), fr), DataFor(Gradient(), fr)
ValueFor(st, n, fr) ==
    IF st.Value[n] = NoMatrix THEN NullDereference(st) ELSE DataFor(st, n, st.Value[n], fr)
GradientFor(st, n, fr) ==
    IF st.Gradient[n] = NoMatrix THEN NullDereference(st) ELSE DataFor(st, n, st.Gradient[n], fr)

\* ComputationNodeBase::GetNumTimeSteps
GetNumTimeSteps(st, n) ==
    IF st.m_pMBLayout[n] = NoLayout THEN [st EXCEPT !.err = "LogicError"]
    ELSE [st EXCEPT !.ret = st.m_pMBLayout[n].numTimeSteps]

\* MaskMissingColumnsTo(matrixToBeMasked, pMBLayout, fr, val): the gap columns
\* that fr selects are set to val; without a layout there are no gaps
MaskMissingColumnsTo(m, pMBLayout, fr, val) ==
    IF pMBLayout = NoLayout THEN m
    ELSE [m EXCEPT !.data = [c \in 1..m.cols |->
                                IF c \in GapColumns(pMBLayout) \cap ColumnsIn(pMBLayout, fr)
                                THEN val ELSE m.data[c]]]

\* a MaskMissingColumnsToZero that clears every column fr selects
ZeroColumnsOfFrameRange(m, pMBLayout, fr) ==
    IF pMBLayout = NoLayout THEN m
    ELSE [m EXCEPT !.data = [c \in 1..m.cols |->
                                IF c \in ColumnsIn(pMBLayout, fr) THEN 0 ELSE m.data[c]]]

\* ComputationNode::MaskMissingColumnsToZero and its two callers
MaskMissingColumnsToZero(m, pMBLayout, fr) == MaskMissingColumnsTo(m, pMBLayout, fr, 0)

MaskMissingValueColumnsToZero(st, n, fr) ==
    IF st.Value[n] = NoMatrix THEN NullDereference(st)
    ELSE [st EXCEPT !.Value[n] = MaskMissingColumnsToZero(@, st.m_pMBLayout[n], fr)]
MaskMissingGradientColumnsToZero(st, n, fr) ==
    IF st.Gradient[n] = NoMatrix THEN NullDereference(st)
    ELSE [st EXCEPT !.Gradient[n] = MaskMissingColumnsToZero(@, st.m_pMBLayout[n], fr)]

\* MaskedValueFor(fr) and MaskedGradientFor(fr)
MaskedValueFor(st, n, fr) ==
    LET s1 == MaskMissingValueColumnsToZero(st, n, fr)
    IN  IF s1.err # "none" THEN s1 ELSE ValueFor(s1, n, fr)
MaskedGradientFor(st, n, fr) ==
    LET s1 == MaskMissingGradientColumnsToZero(st, n, fr)
    IN  IF s1.err # "none" THEN s1 ELSE GradientFor(s1, n, fr)

\* a buffer of one row whose columns, gaps included, hold distinct non-zero
\* contents
FilledMatrix(cols, base) == Matrix(1, cols, [c \in 1..cols |-> base + c])

\* node SizeNodes has any layout, with any gaps, or none, and value and
\* gradient buffers of as many columns as the layout has (one without layout)
InitFrames ==
    /\ GradIdle
    /\ SizedNodeIs(TRUE, FALSE)
    /\ m_sampleLayout = [n \in 1..SizeNodes |-> <<1>>]
    /\ \E layout \in {NoLayout} \cup Layouts :
          LET cols == IF layout = NoLayout THEN 1 ELSE GetNumCols(layout)
          IN  /\ m_pMBLayout = [n \in 1..SizeNodes |-> IF n = SizeNodes THEN layout ELSE NoLayout]
              /\ Value = [n \in 1..SizeNodes |->
                             IF n = SizeNodes THEN FilledMatrix(cols, 10) ELSE NoMatrix]
              /\ Gradient = [n \in 1..SizeNodes |->
                                IF n = SizeNodes THEN FilledMatrix(cols, 20) ELSE NoMatrix]
    /\ lastCall = [op |-> "none", previous |-> "none"]

\* the call 'op' with the FrameRange fr on node SizeNodes leaves the members r
FrameOutcome(op, fr, r) ==
    /\ Value' = r.Value
    /\ Gradient' = r.Gradient
    /\ lastCall' = [op |-> op, node |-> SizeNodes, fr |-> fr, err |-> r.err,
                    errNode |-> r.errNode, ret |-> r.ret,
                    valueBefore |-> Value[SizeNodes], gradientBefore |-> Gradient[SizeNodes],
                    previous |-> lastCall.op,
                    previousFr |-> IF lastCall.op = "none" THEN fr ELSE lastCall.fr]
    /\ UNCHANGED <<m_nodeName, operationName, m_deviceId, m_sampleLayout, m_pMBLayout,
                   m_parameterUpdateRequired,
                   m_inputs, enumVars, timeVars, threadVars, gradVars, poolVars, attachVars>>

CallValueFor(fr) ==
    /\ lastCall.op = "none"
    /\ FrameOutcome("ValueFor", fr, ValueFor(FrameState, SizeNodes, fr))
CallGradientFor(fr) ==
    /\ lastCall.op = "none"
    /\ FrameOutcome("GradientFor", fr, GradientFor(FrameState, SizeNodes, fr))
CallGetNumTimeSteps ==
    /\ lastCall.op = "none"
    /\ FrameOutcome("GetNumTimeSteps", AllFrames, GetNumTimeSteps(FrameState, SizeNodes))
CallMaskedValueFor(fr) ==
    /\ lastCall.op = "none"
    /\ FrameOutcome("MaskedValueFor", fr, MaskedValueFor(FrameState, SizeNodes, fr))
CallMaskedGradientFor(fr) ==
    /\ lastCall.op = "none"
    /\ FrameOutcome("MaskedGradientFor", fr, MaskedGradientFor(FrameState, SizeNodes, fr))
\* the masking functions are called once or twice in a row
CallMaskMissingValueColumnsToZero(fr) ==
    /\ \/ lastCall.op = "none"
       \/ lastCall.op = "MaskMissingValueColumnsToZero" /\ lastCall.previous = "none"
    /\ FrameOutcome("MaskMissingValueColumnsToZero", fr,
                    MaskMissingValueColumnsToZero(FrameState, SizeNodes, fr))
CallMaskMissingGradientColumnsToZero(fr) ==
    /\ \/ lastCall.op = "none"
       \/ lastCall.op = "MaskMissingGradientColumnsToZero" /\ lastCall.previous = "none"
    /\ FrameOutcome("MaskMissingGradientColumnsToZero", fr,
                    MaskMissingGradientColumnsToZero(FrameState, SizeNodes, fr))

NextFrames ==
    \/ CallGetNumTimeSteps
    \/ \E fr \in TimeSteps :
          \/ CallValueFor(fr)
          \/ CallGradientFor(fr)
          \/ CallMaskedValueFor(fr)
          \/ CallMaskedGradientFor(fr)
          \/ CallMaskMissingValueColumnsToZero(fr)
          \/ CallMaskMissingGradientColumnsToZero(fr)

SpecFrames == InitFrames /\ [][NextFrames]_vars

\* ------------------------------------------- claims, frame ranges and masking

\* C28: ValueFor and GradientFor (DataFor) with a FrameRange of a single time
\* step on a node without a layout raise a LogicError that names the node, and
\* GetNumTimeSteps on a node without a layout raises a LogicError.
C28_SingleStepWithoutLayoutRaises ==
    m_pMBLayout[SizeNodes] = NoLayout =>
        /\ (lastCall.op \in {"ValueFor", "GradientFor"} /\ lastCall.fr # AllFrames)
              => lastCall.err = "LogicError" /\ lastCall.errNode = m_nodeName[lastCall.node]
        /\ lastCall.op = "GetNumTimeSteps" => lastCall.err = "LogicError"

\* a single time step of the value of a node without layout was asked for,
\* and the call raised
C28_Witness ==
    /\ m_pMBLayout[SizeNodes] = NoLayout
    /\ lastCall.op = "ValueFor"
    /\ lastCall.fr = FrameRange(0)
    /\ lastCall.err = "LogicError"
    /\ lastCall.errNode = m_nodeName[SizeNodes]

MaskCalls == {"MaskMissingValueColumnsToZero", "MaskMissingGradientColumnsToZero"}

\* the columns of the node's layout that hold real samples
SampleColumns(n) ==
    IF m_pMBLayout[n] = NoLayout THEN {1}
    ELSE (1..GetNumCols(m_pMBLayout[n])) \ GapColumns(m_pMBLayout[n])

\* C29: masking the gap columns of the value (or of the gradient) a second
\* time with the same FrameRange and layout leaves the buffer as the first
\* masking left it, and a masking changes gap columns only: every column that
\* holds a real sample, in either buffer, is as it was before.
C29_MaskingIsIdempotentAndSparesSamples ==
    lastCall.op \in MaskCalls =>
        /\ (lastCall.previous = lastCall.op /\ lastCall.previousFr = lastCall.fr)
              => /\ Value[lastCall.node] = lastCall.valueBefore
                 /\ Gradient[lastCall.node] = lastCall.gradientBefore
        /\ \A c \in SampleColumns(lastCall.node) :
              /\ Value[lastCall.node].data[c] = lastCall.valueBefore.data[c]
              /\ Gradient[lastCall.node].data[c] = lastCall.gradientBefore.data[c]
        /\ lastCall.err = "none"

\* the value was masked twice with the same FrameRange: the first masking
\* cleared a gap column next to a column with a real sample, the second
\* found nothing to change
C29_Witness ==
    /\ lastCall.op = "MaskMissingValueColumnsToZero"
    /\ lastCall.previous = lastCall.op /\ lastCall.previousFr = lastCall.fr
    /\ m_pMBLayout[SizeNodes] # NoLayout
    /\ \E c \in GapColumns(m_pMBLayout[SizeNodes]) : Value[SizeNodes].data[c] = 0
    /\ \E c \in SampleColumns(SizeNodes) :
          c \in ColumnsIn(m_pMBLayout[SizeNodes], lastCall.fr) /\ Value[SizeNodes].data[c] # 0
    /\ Value[SizeNodes] = lastCall.valueBefore

\* ------------------------------------------------------------ recurrent loops

Min(a, b) == IF a <= b THEN a ELSE b

\* the loop bookkeeping of ComputationNetworkOwnedNodeState as
\* PurgeStateForFormingRecurrentLoops leaves it, with the counter of discovery
\* indices, the stack and the loops found so far
PurgeStateForFormingRecurrentLoops(inp) ==
    [index |-> 0,
     m_index |-> [n \in NodesOf(inp) |-> -1],
     m_minIndex |-> [n \in NodesOf(inp) |-> -1],
     m_inStack |-> [n \in NodesOf(inp) |-> FALSE],
     stack |-> <<>>,
     loops |-> <<>>]

\* a strongly connected component counts as a loop only with several members
IsLoopOfSeveralNodes(inp, scc) == Cardinality(scc) > 1

\* a strongly connected component is a loop when it has more than one member
\* or its one member is its own input
IsLoop(inp, scc) ==
    \/ Cardinality(scc) > 1
    \/ \E n \in scc : n \in InputSet(inp, n)

\* node v is the root of a component: the stack from v on is the component
PopComponent(inp, v, st) ==
    LET p == CHOOSE i \in 1..Len(st.stack) : st.stack[i] = v
        scc == {st.stack[i] : i \in p..Len(st.stack)}
    IN  [st EXCEPT !.stack = SubSeq(@, 1, p - 1),
                   !.m_inStack = [n \in DOMAIN @ |-> @[n] /\ n \notin scc],
                   !.loops = IF IsLoop(inp, scc) THEN Append(@, scc) ELSE @]

RECURSIVE DetermineSCCsR(_, _, _)
RECURSIVE DetermineSCCsOfInputs(_, _, _, _)
\* the loop of DetermineSCCsR over the inputs of node v, from input i on
DetermineSCCsOfInputs(inp, v, i, st) ==
    IF i > Len(inp[v]) THEN st
    ELSE LET w == inp[v][i]
             s1 == IF w = Null THEN st
                   ELSE IF st.m_index[w] = -1
                   THEN LET s == DetermineSCCsR(inp, w, st)
                        IN  [s EXCEPT !.m_minIndex[v] = Min(@, s.m_minIndex[w])]
                   ELSE IF st.m_inStack[w]
                   THEN [st EXCEPT !.m_minIndex[v] = Min(@, st.m_index[w])]
                   ELSE st
         IN  DetermineSCCsOfInputs(inp, v, i + 1, s1)

\* the strongly-connected-components search from node v: v gets its discovery
\* index, its min-reachable index is taken over its inputs, and v is the root
\* of a component when the two are equal
DetermineSCCsR(inp, v, st) ==
    LET s0 == [st EXCEPT !.m_index[v] = st.index, !.m_minIndex[v] = st.index,
                         !.index = @ + 1, !.stack = Append(@, v), !.m_inStack[v] = TRUE]
        s1 == DetermineSCCsOfInputs(inp, v, 1, s0)
    IN  IF s1.m_minIndex[v] = s1.m_index[v] THEN PopComponent(inp, v, s1) ELSE s1

\* FormRecurrentLoops(rootNode): the loops of the graph under the root
FormRecurrentLoops(inp, rootNode) ==
    DetermineSCCsR(inp, rootNode, PurgeStateForFormingRecurrentLoops(inp)).loops

\* an ordinary entry of the top-level evaluation order, and the flow-control
\* wrapper of a loop with its nested nodes in evaluation order
OrdinaryNode(n) == [flowControl |-> FALSE, node |-> n, m_nestedNodes |-> <<>>]
FlowControlNode(nested) == [flowControl |-> TRUE, node |-> Null, m_nestedNodes |-> nested]

\* the entries of the sequence s that are in the set S, in order
RECURSIVE Restrict(_, _)
Restrict(s, S) ==
    IF s = <<>> THEN <<>>
    ELSE IF Head(s) \in S THEN <<Head(s)>> \o Restrict(Tail(s), S)
    ELSE Restrict(Tail(s), S)

RECURSIVE NestFrom(_, _, _, _)
\* the evaluation order from entry i on, the members of a loop replaced by the
\* loop's wrapper where the first of them stood
NestFrom(order, loops, i, done) ==
    IF i > Len(order) THEN <<>>
    ELSE LET n == order[i]
         IN  IF \E k \in 1..Len(loops) : n \in loops[k]
             THEN LET k == CHOOSE j \in 1..Len(loops) : n \in loops[j]
                  IN  IF k \in done THEN NestFrom(order, loops, i + 1, done)
                      ELSE <<FlowControlNode(Restrict(order, loops[k]))>>
                           \o NestFrom(order, loops, i + 1, done \cup {k})
             ELSE <<OrdinaryNode(n)>> \o NestFrom(order, loops, i + 1, done)

\* the top-level evaluation order of the network under the root: that of
\* EnumerateNodes with every loop collapsed into its wrapper
FormNestedNetwork(inp, rootNode, loops) ==
    NestFrom(EnumerateNodes(inp, <<rootNode>>), loops, 1, {})

\* any graph without null inputs, feedback edges included; no node is marked
InitLoops ==
    /\ EnumIdle /\ TimeIdle /\ ThreadsIdle /\ PoolIdle /\ AttachIdle
    /\ m_inputs \in InputLists(NumNodes, MaxEdges, 1..NumNodes)
    /\ m_isPartOfLoop = [n \in 1..NumNodes |-> FALSE]
    /\ m_needsGradient = <<>> /\ m_gradient = <<>> /\ m_gradientInitialized = <<>>
    /\ bpPc = "idle" /\ bpOrder = <<>> /\ bpPos = 0 /\ bpLog = <<>> /\ bpPass = 0
    /\ lastBackprop = [op |-> "none"]
    /\ m_nodeName = <<>> /\ operationName = <<>> /\ m_deviceId = <<>>
    /\ m_sampleLayout = <<>> /\ m_pMBLayout = <<>> /\ m_parameterUpdateRequired = <<>>
    /\ Value = <<>> /\ Gradient = <<>>
    /\ lastCall = [op |-> "none"]

\* the network under rootNode is analysed: its loops are formed, their
\* members marked, and its top-level evaluation order built
CallFormRecurrentLoops(rootNode) ==
    LET loops == FormRecurrentLoops(m_inputs, rootNode)
    IN  /\ lastCall.op = "none"
        /\ m_isPartOfLoop' = [n \in NodesOf(m_inputs) |-> \E k \in 1..Len(loops) : n \in loops[k]]
        /\ lastCall' = [op |-> "FormRecurrentLoops", root |-> rootNode, loops |-> loops,
                        topLevel |-> FormNestedNetwork(m_inputs, rootNode, loops)]
        /\ UNCHANGED <<m_nodeName, operationName, m_deviceId, m_sampleLayout, m_pMBLayout,
                       m_parameterUpdateRequired, Value, Gradient,
                       m_needsGradient, m_gradient, m_gradientInitialized,
                       bpPc, bpOrder, bpPos, bpLog, bpPass, lastBackprop,
                       m_inputs, enumVars, timeVars, threadVars, poolVars, attachVars>>

NextLoops == \E rootNode \in NodesOf(m_inputs) : CallFormRecurrentLoops(rootNode)

SpecLoops == InitLoops /\ [][NextLoops]_vars

\* ------------------------------------------------------ claims, recurrent loops

LoopsFormed == lastCall.op = "FormRecurrentLoops"
\* the nodes of the network under the root
UnderRoot == ReachableFrom(m_inputs, {lastCall.root})
\* node n is on a feedback cycle
OnCycle(n) == Reaches(m_inputs, n, n)
\* the nodes mutually dependent with n
DependentWith(n) == {b \in UnderRoot : Reaches(m_inputs, n, b) /\ Reaches(m_inputs, b, n)}
LoopsWith(n) == {k \in 1..Len(lastCall.loops) : n \in lastCall.loops[k]}

ReleaseOutcome(op, n, st) ==
    /\ valueMatrix' = st.value
    /\ gradientMatrix' = st.gradient
    /\ matrixType' = st.type
    /\ releasedMatrices' = st.pool
    /\ handedBack' = [b \in 1..Len(st.type) |->
                        IF b \in Range(st.released) THEN [node |-> n, op |-> op]
                        ELSE IF b <= Len(handedBack) THEN handedBack[b]
                        ELSE NeverHandedBack]
    /\ lastHook' = [op |-> op, node |-> n, err |-> st.err,
                    calls |-> Append(lastHook.calls,
                                     [op |-> op, err |-> st.err, released |-> st.released,
                                      releasedFrom |-> st.releasedFrom])]
    /\ hookCalls' = hookCalls + 1
    /\ UNCHANGED <<g_shareNodeValueMatrices, m_valueSharable,
                   m_outputNeededDuringBackprop, requiresPreCompute,
                   m_inputs, enumVars, timeVars, threadVars, gradVars, attachVars, nodeVars>>

\* the node PoolNodes as InitHook describes it, before the first release
InitRelease ==
    /\ m_inputs \in DagInputLists(PoolNodes, PoolNodes)
    /\ g_shareNodeValueMatrices \in BOOLEAN
    /\ \E o \in BOOLEAN :
          m_outputNeededDuringBackprop = [n \in 1..PoolNodes |-> n < PoolNodes \/ o]
    /\ \E sh \in BOOLEAN, vs \in {Dense, Sparse} :
          /\ m_valueSharable = [n \in 1..PoolNodes |-> n < PoolNodes \/ sh]
          /\ valueMatrix = [n \in 1..PoolNodes |-> IF n = PoolNodes THEN 2 * n - 1 ELSE Null]
          /\ \E gs \in {"none", Dense, Sparse} :
                /\ gradientMatrix = [n \in 1..PoolNodes |->
                                       IF n = PoolNodes /\ gs # "none" THEN 2 * n ELSE Null]
                /\ m_needsGradient = [n \in 1..PoolNodes |-> TRUE]
                /\ matrixType = [b \in 1..(2 * PoolNodes + 1) |->
                                   IF b = 2 * PoolNodes - 1 /\ vs = Sparse THEN Sparse
                                   ELSE IF b = 2 * PoolNodes /\ gs = Sparse THEN Sparse
                                   ELSE Dense]
    /\ \E pre \in BOOLEAN : requiresPreCompute = [n \in 1..PoolNodes |-> n = PoolNodes /\ pre]
    /\ releasedMatrices \in {<<>>, <<2 * PoolNodes + 1>>}
    /\ handedBack = [b \in 1..(2 * PoolNodes + 1) |-> NeverHandedBack]
    /\ lastHook = [op |-> "none", calls |-> <<>>]
    /\ hookCalls = 0
    /\ PoolOthersIdle

ThenReleaseMatricesAfterForwardProp ==
    /\ lastHook.op = "none"
    /\ ReleaseOutcome("ReleaseMatricesAfterForwardProp", PoolNodes,
                      ReleaseMatricesAfterForwardProp(PoolState, PoolNodes))

ThenRequestMatricesBeforeBackprop ==
    /\ lastHook.op = "ReleaseMatricesAfterForwardProp"
    /\ ReleaseOutcome("RequestMatricesBeforeBackprop", PoolNodes,
                      RequestMatricesBeforeBackprop(PoolState, PoolNodes))

ThenReleaseMatricesAfterBackprop ==
    /\ lastHook.op \in {"ReleaseMatricesAfterForwardProp", "RequestMatricesBeforeBackprop"}
    /\ ReleaseOutcome("ReleaseMatricesAfterBackprop", PoolNodes,
                      ReleaseMatricesAfterBackprop(PoolState, PoolNodes))

NextRelease ==
    \/ ThenReleaseMatricesAfterForwardProp
    \/ ThenRequestMatricesBeforeBackprop
    \/ ThenReleaseMatricesAfterBackprop

SpecRelease == InitRelease /\ [][NextRelease]_vars

\* ------------------------------------------ claims, the two releases of a value

\* both releases of the minibatch have been called on the node
BothReleasesCalled == lastHook.op = "ReleaseMatricesAfterBackprop"
\* call i of the sequence handed the node's value pointer to the pool
HandedValue(i) == "value" \in Range(lastHook.calls[i].releasedFrom)
\* how often Matrix object b is in the pool
TimesInPool(b) == Cardinality({i \in 1..Len(releasedMatrices) : releasedMatrices[i] = b})

\* C31: ReleaseMatricesAfterForwardProp followed by
\* ReleaseMatricesAfterBackprop on a node whose flags do not change hand the
\* node's value buffer to the pool in at most one of the two calls, and the
\* buffer is in the pool at most once afterwards.
C31_ValueReleasedAtMostOnce ==
    BothReleasesCalled =>
        /\ ~(HandedValue(1) /\ HandedValue(Len(lastHook.calls)))
        /\ \A b \in 1..Len(matrixType) : TimesInPool(b) <= 1

\* the forward release handed the value buffer to the pool, the pool gave it
\* to the node as gradient buffer, and the release after backprop handed it
\* back as gradient only
C31_Witness ==
    /\ BothReleasesCalled
    /\ Len(lastHook.calls) = 3
    /\ HandedValue(1)
    /\ gradientMatrix[PoolNodes] = valueMatrix[PoolNodes]
    /\ lastHook.calls[3].releasedFrom = <<"gradient">>
    /\ TimesInPool(valueMatrix[PoolNodes]) = 1

\* the forward release kept the value buffer and the release after backprop
\* handed it to the pool
C31_WitnessRetained ==
    /\ BothReleasesCalled
    /\ ~HandedValue(1)
    /\ HandedValue(Len(lastHook.calls))

\* ------------------------------------------- EnumerateNodes, one step at a time
\* The traversal with its call stack: an activation of the static
\* EnumerateNodes is the frame [fn |-> "EnumerateNodes", i |-> the next root],
\* an activation of EnumerateNodesRec on node n the frame
\* [fn |-> "EnumerateNodesRec", node |-> n, i |-> the next input], with i = 0
\* before the test on the visited set.

\* deepest call stack followed (a stack of the traversal holds the activation
\* of EnumerateNodes and at most one activation per node and a call on top)
WalkDepth == LoopNodes + 3

RootsFrame(r) == [fn |-> "EnumerateNodes", node |-> Null, i |-> r]
RecFrame(n) == [fn |-> "EnumerateNodesRec", node |-> n, i |-> 0]

\* the running call: the visited set, the result list and the call stack
WalkState == [visited |-> visitedSet, result |-> nodes, stack |-> callStack]

Top(st) == st.stack[Len(st.stack)]
Return(st) == [st EXCEPT !.stack = SubSeq(@, 1, Len(@) - 1)]
\* the innermost activation moves on to its next root or input and calls
\* EnumerateNodesRec on node n
CallRec(st, n) ==
    [st EXCEPT !.stack = Append([@ EXCEPT ![Len(@)].i = @ + 1], RecFrame(n))]

\* the for loop of EnumerateNodes over allRoots
NextRoot(roots, st) ==
    IF Top(st).i > Len(roots) THEN Return(st)
    ELSE CallRec(st, roots[Top(st).i])

\* an entry of EnumerateNodesRec that does not tag the node as visited
EnterNodeWithoutTagging(st) ==
    IF ~NotYetVisited(st.visited, Top(st).node) THEN Return(st)
    ELSE [st EXCEPT !.stack[Len(st.stack)].i = 1]

\* the entry of EnumerateNodesRec: a node already visited is left at once,
\* any other is tagged as visited before its inputs are followed
EnterNode(st) ==
    IF ~NotYetVisited(st.visited, Top(st).node) THEN Return(st)
    ELSE [st EXCEPT !.visited = @ \cup {Top(st).node},
                    !.stack[Len(st.stack)].i = 1]

\* one round of the for loop over m_inputs (null inputs are skipped)
VisitInput(inp, st) ==
    LET c == inp[Top(st).node][Top(st).i]
    IN  IF c # Null THEN CallRec(st, c)
        ELSE [st EXCEPT !.stack[Len(st.stack)].i = @ + 1]

\* the end of EnumerateNodesRec: the node is put on the list
LeaveNode(st) == Return([st EXCEPT !.result = Append(@, Top(st).node)])

\* any graph of LoopNodes nodes without null inputs, feedback edges and
\* self-loops included
InitWalk ==
    /\ PoolIdle /\ AttachIdle /\ NodeIdle /\ TimeIdle /\ ThreadsIdle /\ GradIdle
    /\ m_inputs \in InputLists(LoopNodes, MaxEdges, 1..LoopNodes)
    /\ EnumIdle

WalkOutcome(st) ==
    /\ visitedSet' = st.visited
    /\ nodes' = st.result
    /\ callStack' = st.stack
    /\ enumCalled' = (st.stack = <<>>)
    /\ UNCHANGED <<allRoots, nodeVars, attachVars, poolVars, m_inputs, timeVars, threadVars, gradVars>>

\* EnumerateNodes(roots) is called
WalkStart(roots) ==
    /\ ~enumCalled /\ callStack = <<>>
    /\ allRoots' = roots
    /\ visitedSet' = {}
    /\ nodes' = <<>>
    /\ callStack' = <<RootsFrame(1)>>
    /\ UNCHANGED <<enumCalled, nodeVars, attachVars, poolVars, m_inputs, timeVars, threadVars, gradVars>>

WalkNextRoot ==
    /\ callStack # <<>> /\ Top(WalkState).fn = "EnumerateNodes"
    /\ Len(callStack) < WalkDepth
    /\ WalkOutcome(NextRoot(allRoots, WalkState))

WalkEnterNode ==
    /\ callStack # <<>> /\ Top(WalkState).fn = "EnumerateNodesRec"
    /\ Top(WalkState).i = 0
    /\ WalkOutcome(EnterNode(WalkState))

WalkVisitInput ==
    /\ callStack # <<>> /\ Top(WalkState).fn = "EnumerateNodesRec"
    /\ Top(WalkState).i \in 1..Len(m_inputs[Top(WalkState).node])
    /\ Len(callStack) < WalkDepth
    /\ WalkOutcome(VisitInput(m_inputs, WalkState))

WalkLeaveNode ==
    /\ callStack # <<>> /\ Top(WalkState).fn = "EnumerateNodesRec"
    /\ Top(WalkState).i > Len(m_inputs[Top(WalkState).node])
    /\ WalkOutcome(LeaveNode(WalkState))

NextWalk ==
    \/ \E roots \in RootLists(m_inputs) : WalkStart(roots)
    \/ WalkNextRoot
    \/ WalkEnterNode
    \/ WalkVisitInput
    \/ WalkLeaveNode

SpecWalk == InitWalk /\ [][NextWalk]_vars

\* the call runs on: the thread executing it is not stopped
SpecWalkFair == SpecWalk /\ WF_vars(NextWalk)

\* --------------------------------------------- claims, the traversal's steps

\* C32: EnumerateNodes terminates on every graph, graphs with feedback cycles
\* and self-loops included, and the list it has returned then holds every node
\* reachable from the roots exactly once.
C32_EnumerateNodesTerminates ==
    <>(/\ enumCalled
       /\ NoDuplicates(nodes)
       /\ Range(nodes) = ReachableFrom(m_inputs, Range(allRoots)))

\* the call stack never holds more than the activation of EnumerateNodes, one
\* activation per node and a call that returns at once
WalkStackBounded == Len(callStack) <= LoopNodes + 2

\* C32 witness: a call has returned on a graph with a self-loop and a feedback
\* cycle through two nodes, both reached
C32_Witness ==
    /\ enumCalled
    /\ \E n \in Range(nodes) : n \in InputSet(m_inputs, n)
    /\ \E a, b \in Range(nodes) : a # b /\ Reaches(m_inputs, a, b) /\ Reaches(m_inputs, b, a)
    /\ Len(nodes) = LoopNodes

\* --------------------------------------------------------------------- CopyTo

\* the matrices the target of a copy may hold
TargetMatrices == {NoMatrix, Matrix(2, 1, <<9>>)}

\* Node CopyNodes is the source: it has some inputs or none, any sample shape
\* of rank at most 1, its flags set or cleared, a recent time stamp and any of
\* the matrices.  Node 1 is the target: a node of the same class or another,
\* with members that differ from the source's whatever the source holds.  Any
\* other node is a leaf of a third class.
InitCopyTo ==
    /\ EnumIdle /\ ThreadsIdle /\ PoolIdle /\ AttachIdle
    /\ s_timeStampCounter = MaxStamp /\ m_value = <<>> /\ seenStamps = <<>>
    /\ inputBumped = <<>> /\ lastOp = [op |-> "none"]
    /\ m_gradient = <<>> /\ m_gradientInitialized = <<>> /\ bpPc = "idle" /\ bpOrder = <<>>
    /\ bpPos = 0 /\ bpLog = <<>> /\ bpPass = 0 /\ lastBackprop = [op |-> "none"]
    /\ m_nodeName = [n \in 1..CopyNodes |->
                       IF n = CopyNodes THEN "original" ELSE IF n = 1 THEN "target" ELSE "leaf"]
    /\ \E op \in {"Plus", "Times"} :
          operationName = [n \in 1..CopyNodes |->
                             IF n = CopyNodes THEN "Plus" ELSE IF n = 1 THEN op ELSE "InputValue"]
    /\ m_deviceId = [n \in 1..CopyNodes |-> IF n = CopyNodes THEN 0 ELSE 1]
    /\ m_pMBLayout = [n \in 1..CopyNodes |-> NoLayout]
    /\ \E l \in {<<>>, <<1>>} :
          m_inputs = [n \in 1..CopyNodes |->
                        IF n = CopyNodes THEN l ELSE IF n = 1 THEN <<Null>> ELSE <<>>]
    /\ \E shape \in SeqsUpTo(1..MaxDim, 1) :
          m_sampleLayout = [n \in 1..CopyNodes |-> IF n = CopyNodes THEN shape ELSE <<1, 1>>]
    /\ \E b \in BOOLEAN :
          /\ m_parameterUpdateRequired = [n \in 1..CopyNodes |-> IF n = CopyNodes THEN b ELSE ~b]
          /\ m_needsGradient = [n \in 1..CopyNodes |-> IF n = CopyNodes THEN b ELSE ~b]
          /\ m_isPartOfLoop = [n \in 1..CopyNodes |-> IF n = CopyNodes THEN b ELSE ~b]
    /\ m_evalTimeStamp = [n \in 1..CopyNodes |-> IF n = CopyNodes THEN MaxStamp - 1 ELSE 0]
    /\ \E v \in SomeMatrices, w \in TargetMatrices :
          Value = [n \in 1..CopyNodes |->
                     IF n = CopyNodes THEN v ELSE IF n = 1 THEN w ELSE NoMatrix]
    /\ \E g \in SomeMatrices, h \in TargetMatrices :
          Gradient = [n \in 1..CopyNodes |->
                        IF n = CopyNodes THEN g ELSE IF n = 1 THEN h ELSE NoMatrix]
    /\ lastCall = [op |-> "none"]

\* CopyTo(node, newName, flags) is called on node CopyNodes
CallCopyTo(node, newName, flags) ==
    LET r == CopyTo(NodeState, CopyNodes, node, newName, flags)
    IN  /\ lastCall.op = "none"
        /\ m_nodeName' = r.m_nodeName
        /\ operationName' = r.operationName
        /\ m_deviceId' = r.m_deviceId
        /\ m_inputs' = r.m_inputs
        /\ m_sampleLayout' = r.m_sampleLayout
        /\ m_pMBLayout' = r.m_pMBLayout
        /\ m_parameterUpdateRequired' = r.m_parameterUpdateRequired
        /\ m_needsGradient' = r.m_needsGradient
        /\ m_isPartOfLoop' = r.m_isPartOfLoop
        /\ m_evalTimeStamp' = r.m_evalTimeStamp
        /\ Value' = r.Value
        /\ Gradient' = r.Gradient
        /\ lastCall' = [op |-> "CopyTo", this |-> CopyNodes, node |-> node, newName |-> newName,
                        flags |-> flags, err |-> r.err, before |-> NodeState]
        /\ UNCHANGED <<s_timeStampCounter, m_value, seenStamps, inputBumped, lastOp,
                       m_gradient, m_gradientInitialized, bpPc, bpOrder, bpPos, bpLog, bpPass,
                       lastBackprop, enumVars, threadVars, poolVars, attachVars>>

NextCopyTo ==
    \E node \in 1..CopyNodes, newName \in {"", "copy"}, flags \in CopyNodeFlags :
        CallCopyTo(node, newName, flags)

SpecCopyTo == InitCopyTo /\ [][NextCopyTo]_vars

\* ------------------------------------------------------------ claims, CopyTo

Copied == lastCall.op = "CopyTo"

\* the members of node n other than its input list are what they were before
\* the call
MembersUnchanged(n) ==
    LET b == lastCall.before
    IN  /\ m_nodeName[n] = b.m_nodeName[n]
        /\ operationName[n] = b.operationName[n]
        /\ m_deviceId[n] = b.m_deviceId[n]
        /\ m_sampleLayout[n] = b.m_sampleLayout[n]
        /\ m_pMBLayout[n] = b.m_pMBLayout[n]
        /\ m_parameterUpdateRequired[n] = b.m_parameterUpdateRequired[n]
        /\ m_needsGradient[n] = b.m_needsGradient[n]
        /\ m_isPartOfLoop[n] = b.m_isPartOfLoop[n]
        /\ m_evalTimeStamp[n] = b.m_evalTimeStamp[n]
        /\ Value[n] = b.Value[n]
        /\ Gradient[n] = b.Gradient[n]
InputsUnchanged(n) == m_inputs[n] = lastCall.before.m_inputs[n]

\* the target holds what CopyTo copies from the source with copyNodeValue: the
\* device, the flags, the sample shape, the time stamp and the value and
\* gradient contents, under the new name
ValueCopied ==
    LET b == lastCall.before
        s == lastCall.this
        t == lastCall.node
    IN  /\ m_nodeName[t] = lastCall.newName
        /\ m_deviceId[t] = b.m_deviceId[s]
        /\ m_sampleLayout[t] = b.m_sampleLayout[s]
        /\ m_parameterUpdateRequired[t] = b.m_parameterUpdateRequired[s]
        /\ m_needsGradient[t] = b.m_needsGradient[s]
        /\ m_isPartOfLoop[t] = b.m_isPartOfLoop[s]
        /\ m_evalTimeStamp[t] = b.m_evalTimeStamp[s]
        /\ Value[t] = b.Value[s]
        /\ Gradient[t] = b.Gradient[s]

NonLoopingState == [invoked |-> <<>>, err |-> "none"]
LogicError(st) == [st EXCEPT !.err = "LogicError"]

\* the pure virtual functions the concrete node implements: the model keeps
\* that they were invoked, and with which argument
ForwardPropNonLooping(st, n) ==
    [st EXCEPT !.invoked = Append(@, [fn |-> "ForwardPropNonLooping", node |-> n])]
BackpropToNonLooping(st, n, inputIndex) ==
    [st EXCEPT !.invoked = Append(@, [fn |-> "BackpropToNonLooping", node |-> n,
                                      inputIndex |-> inputIndex])]

\* a ForwardProp that evaluates whatever the FrameRange
ForwardPropOfAnyFrameRange(st, n, fr) == ForwardPropNonLooping(st, n)

\* ComputationNodeNonLooping::ForwardProp(fr) of node n
ForwardProp(st, n, fr) ==
    IF IsAllFrames(fr) THEN ForwardPropNonLooping(st, n)
    ELSE LogicError(st)

\* ComputationNodeNonLooping::BackpropTo(inputIndex, fr) of node n
NonLoopingBackpropTo(st, n, inputIndex, fr) ==
    IF IsAllFrames(fr) THEN BackpropToNonLooping(st, n, inputIndex)
    ELSE LogicError(st)

\* non-looping nodes in any acyclic graph; no call has been made
InitNonLooping ==
    /\ EnumIdle /\ TimeIdle /\ ThreadsIdle /\ GradIdle /\ PoolIdle /\ AttachIdle
    /\ m_inputs \in DagInputLists(PassNodes, PassNodes)
    /\ m_nodeName = <<>> /\ operationName = <<>> /\ m_deviceId = <<>>
    /\ m_sampleLayout = <<>> /\ m_pMBLayout = <<>> /\ m_parameterUpdateRequired = <<>>
    /\ Value = <<>> /\ Gradient = <<>>
    /\ lastCall = [op |-> "none"]

NonLoopingOutcome(op, n, fr, st) ==
    /\ lastCall.op = "none"
    /\ lastCall' = [op |-> op, node |-> n, fr |-> fr, err |-> st.err, invoked |-> st.invoked]
    /\ UNCHANGED <<m_nodeName, operationName, m_deviceId, m_sampleLayout, m_pMBLayout,
                   m_parameterUpdateRequired, Value, Gradient,
                   m_inputs, enumVars, timeVars, threadVars, gradVars, poolVars, attachVars>>

CallForwardProp(n, fr) ==
    NonLoopingOutcome("ForwardProp", n, fr, ForwardProp(NonLoopingState, n, fr))

CallBackpropTo(n, inputIndex, fr) ==
    /\ inputIndex \in 0..(Len(m_inputs[n]) - 1)
    /\ NonLoopingOutcome("BackpropTo", n, fr,
                         NonLoopingBackpropTo(NonLoopingState, n, inputIndex, fr))

NextNonLooping ==
    \/ \E n \in NodesOf(m_inputs), fr \in TimeSteps : CallForwardProp(n, fr)
    \/ \E n \in NodesOf(m_inputs), inputIndex \in 0..PassNodes, fr \in TimeSteps :
          CallBackpropTo(n, inputIndex, fr)

SpecNonLooping == InitNonLooping /\ [][NextNonLooping]_vars

\* --------------------------------------- claims, ComputationNodeNonLooping

\* C35: ForwardProp and BackpropTo of a ComputationNodeNonLooping called with
\* a FrameRange that is not 'all frames' raise a logic error without invoking
\* ForwardPropNonLooping or BackpropToNonLooping; called with 'all frames'
\* they invoke exactly that implementation, once, and raise nothing.
C35_NonLoopingOnlyAllFrames ==
    /\ lastCall.op \in {"ForwardProp", "BackpropTo"} =>
          IF IsAllFrames(lastCall.fr)
          THEN lastCall.err = "none" /\ Len(lastCall.invoked) = 1
          ELSE lastCall.err = "LogicError" /\ lastCall.invoked = <<>>
    /\ (lastCall.op = "ForwardProp" /\ IsAllFrames(lastCall.fr)) =>
          lastCall.invoked[1].fn = "ForwardPropNonLooping"
    /\ (lastCall.op = "BackpropTo" /\ IsAllFrames(lastCall.fr)) =>
          lastCall.invoked[1].fn = "BackpropToNonLooping"

\* C35 witness: ForwardProp was called for a time step other than the first
\* and raised
C35_Witness ==
    /\ lastCall.op = "ForwardProp"
    /\ ~IsAllFrames(lastCall.fr)
    /\ lastCall.fr.timeIdxInSeq > 0
    /\ lastCall.err = "LogicError"
    /\ lastCall.invoked = <<>>

\* ------------------------------------------------------------------- SetInput

\* UpCast(inode) in a ComputationNode of node n's precision: the cast of a
\* null pointer or of a node of the other precision yields null, which is
\* rejected
UpCastRejects(n, inode) == inode = Null \/ ~UpCastSucceeds(n, inode)

\* a SetInput that accepts any index
SetInputAtAnyIndex(n, childIndex, inode) ==
    IF UpCastRejects(n, inode) THEN [inputs |-> m_inputs[n], err |-> "InvalidArgument"]
    ELSE [inputs |-> [Resize(m_inputs[n], Max(Len(m_inputs[n]), childIndex + 1))
                         EXCEPT ![childIndex + 1] = inode],
          err |-> "none"]

\* ComputationNode::SetInput(childIndex, inode) of node n (childIndex counts
\* from 0): the list and the error it leaves
SetInput(n, childIndex, inode) ==
    IF UpCastRejects(n, inode) THEN [inputs |-> m_inputs[n], err |-> "InvalidArgument"]
    ELSE IF childIndex > Len(m_inputs[n])
    THEN [inputs |-> m_inputs[n], err |-> "InvalidArgument"]
    ELSE [inputs |-> [Resize(m_inputs[n], Max(Len(m_inputs[n]), childIndex + 1))
                         EXCEPT ![childIndex + 1] = inode],
          err |-> "none"]

\* SetInput(childIndex, inode) is called on node AttachNodes
CallSetInput(childIndex, inode) ==
    /\ lastAttach.op = "none"
    /\ m_inputs' = [m_inputs EXCEPT ![AttachNodes] = SetInput(AttachNodes, childIndex, inode).inputs]
    /\ lastAttach' = [op |-> "SetInput", node |-> AttachNodes, childIndex |-> childIndex,
                      inode |-> inode, before |-> m_inputs[AttachNodes],
                      err |-> SetInput(AttachNodes, childIndex, inode).err]
    /\ UNCHANGED <<m_numInputs, precision, attachInputs, enumVars, timeVars, threadVars,
                   gradVars, poolVars, nodeVars>>

NextSetInput ==
    \E childIndex \in 0..(MaxAttach + 1), inode \in (1..AttachNodes) \cup {Null} :
        CallSetInput(childIndex, inode)

SpecSetInput == InitAttach /\ [][NextSetInput]_vars

\* ---------------------------------------------------------- claims, SetInput

InputSet1 == lastAttach.op = "SetInput"
\* the node passed is a node of the precision of the node it is set on
NodeAccepted == InputSet1 /\ ~UpCastRejects(lastAttach.node, lastAttach.inode)
\* the entries of list l that are null
NullEntries(l) == {i \in 1..Len(l) : l[i] = Null}

MaxLateCalls == 3

\* the function stored at construction: it attaches the inputs it has
\* captured; and the function stored by LateAttachInputs, which raises
AttachLater(inputs) == [fn |-> "AttachInputs", inputs |-> inputs]
MustOnlyBeCalledOnce == [fn |-> "LogicError", inputs |-> <<>>]

\* attachInputs(this): the stored function is run on node n
RunAttachInputs(n) ==
    IF attachInputs[n] = MustOnlyBeCalledOnce
    THEN [inputs |-> m_inputs[n], err |-> "LogicError"]
    ELSE AttachInputs(n, attachInputs[n].inputs)

\* LateAttachingNode::LateAttachInputs() of node n: the stored function is
\* run, and when it has returned it is replaced by the one that raises; an
\* exception of the stored function leaves the member as it is
LateAttachInputs(n) ==
    LET r == RunAttachInputs(n)
    IN  [inputs |-> r.inputs, err |-> r.err,
         ran |-> attachInputs[n] # MustOnlyBeCalledOnce,
         attachInputs |-> IF r.err = "none" THEN MustOnlyBeCalledOnce ELSE attachInputs[n]]

\* Node AttachNodes is a LateAttachingNode as its constructor leaves it: no
\* inputs, and a stored function that attaches any list of inputs
InitLate ==
    /\ precision \in [1..AttachNodes -> {"float", "double"}]
    /\ \E arity \in {NoArity} \cup (0..MaxAttach) :
          m_numInputs = [n \in 1..AttachNodes |-> IF n = AttachNodes THEN arity ELSE NoArity]
    /\ m_inputs = [n \in 1..AttachNodes |-> <<>>]
    /\ \E inputs \in SeqsUpTo((1..AttachNodes) \cup {Null}, MaxAttach) :
          attachInputs = [n \in 1..AttachNodes |-> AttachLater(IF n = AttachNodes THEN inputs ELSE <<>>)]
    /\ lastAttach = [op |-> "none", calls |-> <<>>]
    /\ EnumIdle /\ TimeIdle /\ ThreadsIdle /\ GradIdle /\ PoolIdle /\ NodeIdle

\* LateAttachInputs() is called on node AttachNodes
CallLateAttachInputs ==
    LET r == LateAttachInputs(AttachNodes)
    IN  /\ Len(lastAttach.calls) < MaxLateCalls
        /\ m_inputs' = [m_inputs EXCEPT ![AttachNodes] = r.inputs]
        /\ attachInputs' = [attachInputs EXCEPT ![AttachNodes] = r.attachInputs]
        /\ lastAttach' = [op |-> "LateAttachInputs",
                          calls |-> Append(lastAttach.calls,
                                           [err |-> r.err, ran |-> r.ran,
                                            before |-> m_inputs[AttachNodes],
                                            after |-> r.inputs])]
        /\ UNCHANGED <<m_numInputs, precision, enumVars, timeVars, threadVars,
                       gradVars, poolVars, nodeVars>>

NextLate == CallLateAttachInputs

SpecLate == InitLate /\ [][NextLate]_vars

\* -------------------------------------------------- claims, LateAttachingNode

\* C37: LateAttachInputs runs the stored attach function on its first call
\* only; every later call raises a logic error and does not change the node's
\* input list.
C37_AttachFunctionRunsOnce ==
    \A k \in 1..Len(lastAttach.calls) :
        IF k = 1 THEN lastAttach.calls[k].ran
        ELSE /\ ~lastAttach.calls[k].ran
             /\ lastAttach.calls[k].err = "LogicError"
             /\ lastAttach.calls[k].after = lastAttach.calls[k].before

\* the same for the calls that follow a call whose attach function returned
C37_RunsOnceAfterItReturned ==
    \A k \in 2..Len(lastAttach.calls) :
        (\E j \in 1..(k - 1) : lastAttach.calls[j].err = "none") =>
            /\ ~lastAttach.calls[k].ran
            /\ lastAttach.calls[k].err = "LogicError"
            /\ lastAttach.calls[k].after = lastAttach.calls[k].before

\* ------------------------------------- ZeroGradientsOfInputs over a whole graph
\* A graph with or without feedback loops and self-loops is drawn, with any
\* 'initialized' flags and stale gradient buffers; ZeroGradientsOfInputs is
\* then called on its nodes, one after the other, in any order.

InitZero ==
    /\ PoolIdle /\ AttachIdle /\ NodeIdle
    /\ m_inputs \in InputLists(LoopNodes, MaxEdges, 1..LoopNodes)
    /\ m_needsGradient = [n \in 1..LoopNodes |-> TRUE]
    /\ m_isPartOfLoop = [n \in 1..LoopNodes |-> Reaches(m_inputs, n, n)]
    /\ m_gradient = [n \in 1..LoopNodes |-> [c \in Columns |-> 5]]
    /\ m_gradientInitialized \in [1..LoopNodes -> BOOLEAN]
    /\ bpPc = "idle" /\ bpOrder = <<>> /\ bpPos = 0 /\ bpLog = <<>> /\ bpPass = 0
    /\ lastBackprop = [op |-> "none", called |-> {},
                       gradFirst |-> m_gradient, initFirst |-> m_gradientInitialized]
    /\ EnumIdle /\ TimeIdle /\ ThreadsIdle

\* node n's ZeroGradientsOfInputs() is called, n being a node it has not been
\* called on yet
ZeroInputsOf(n) ==
    /\ n \notin lastBackprop.called
    /\ m_gradientInitialized' = ZeroGradientsOfInputs(m_gradientInitialized, n)
    /\ lastBackprop' = [op |-> "ZeroGradientsOfInputs", node |-> n,
                        called |-> lastBackprop.called \cup {n},
                        initBefore |-> m_gradientInitialized,
                        gradFirst |-> lastBackprop.gradFirst,
                        initFirst |-> lastBackprop.initFirst]
    /\ UNCHANGED <<m_gradient, nodeVars, attachVars, poolVars, m_inputs, m_needsGradient,
                   m_isPartOfLoop, bpPc, bpOrder, bpPos, bpLog, bpPass,
                   enumVars, timeVars, threadVars>>

NextZero == \E n \in NodesOf(m_inputs) : ZeroInputsOf(n)

SpecZero == InitZero /\ [][NextZero]_vars

\* ------------------------------ claims, ZeroGradientsOfInputs over a graph

FlagsCleared == lastBackprop.op = "ZeroGradientsOfInputs"
\* the nodes that are an input of a node ZeroGradientsOfInputs was called on
InputsOfCalled == UNION {InputSet(m_inputs, n) : n \in lastBackprop.called}

\* what the calls so far have left: no gradient value has changed, the flag of
\* every input of a node called is clear, every other flag is what it was at
\* first; and the last call, on node N, changed the flag of no node that is
\* not an input of N
ClearedExactlyTheInputs ==
    /\ m_gradient = lastBackprop.gradFirst
    /\ \A c \in NodesOf(m_inputs) :
          m_gradientInitialized[c] = (IF c \in InputsOfCalled THEN FALSE
                                      ELSE lastBackprop.initFirst[c])
    /\ \A c \in NodesOf(m_inputs) \ InputSet(m_inputs, lastBackprop.node) :
          m_gradientInitialized[c] = lastBackprop.initBefore[c]

\* C38 as stated: ZeroGradientsOfInputs on node N clears the 'initialized'
\* flag of exactly N's inputs and changes no gradient value, no other node's
\* flag and not N's own flag; after it has been called on every node, every
\* node that is an input of some node has its flag cleared and a node that is
\* nobody's input keeps the flag it had.
C38_ClearsInputsNeverItself ==
    FlagsCleared =>
        /\ ClearedExactlyTheInputs
        /\ m_gradientInitialized[lastBackprop.node] = lastBackprop.initBefore[lastBackprop.node]

\* C38 amended: the same, N's own flag being left alone unless N is one of its
\* own inputs (a self-loop), in which case it is cleared like that of any
\* other input.
C38_ClearsExactlyTheInputs ==
    FlagsCleared =>
        /\ ClearedExactlyTheInputs
        /\ m_gradientInitialized[lastBackprop.node] =
              (IF lastBackprop.node \in InputSet(m_inputs, lastBackprop.node) THEN FALSE
               ELSE lastBackprop.initBefore[lastBackprop.node])

\* C38 witness: ZeroGradientsOfInputs was called on every node of a graph with
\* a root whose flag was set and still is, and an input whose flag was set and
\* is now clear
C38_Witness ==
    /\ FlagsCleared
    /\ lastBackprop.called = NodesOf(m_inputs)
    /\ \E r \in NodesOf(m_inputs) :
          /\ \A n \in NodesOf(m_inputs) : r \notin InputSet(m_inputs, n)
          /\ lastBackprop.initFirst[r] /\ m_gradientInitialized[r]
    /\ \E c \in InputsOfCalled : lastBackprop.initFirst[c] /\ ~m_gradientInitialized[c]


\* ------------------------------------------- time stamps at the counter's width

\* the counter and the stamps are WordBits wide here (64 in the source), so
\* that the counter passes the largest signed value and wraps within the run
WordBits == 3
Modulus == 2 ^ WordBits
HalfModulus == 2 ^ (WordBits - 1)
\* number of CreateUniqId calls followed: the counter wraps once and goes on
MaxBumps == Modulus + 2

\* the conversion of the unsigned counter value to the signed stamp type
ToInt64(u) == IF u >= HalfModulus THEN u - Modulus ELSE u

\* a mathematical integer reduced to the signed stamp type (two's complement)
Int64Wrap(x) == ((x + HalfModulus) % Modulus) - HalfModulus

\* whether a mathematical integer is a value of the signed stamp type
FitsInt64(x) == x >= -HalfModulus /\ x < HalfModulus

\* atomic_fetch_add on the unsigned counter: arithmetic modulo 2^WordBits
AtomicFetchAdd(counter) == [ret |-> counter, counter |-> (counter + 1) % Modulus]

\* TimeStamp::CreateUniqId at the counter's width: the id is returned as a
\* signed value
CreateUniqIdInt64(counter) ==
    [ret |-> ToInt64(AtomicFetchAdd(counter).ret), counter |-> AtomicFetchAdd(counter).counter]

\* TimeStamp::IsOlderThan at the stamps' width: the answers a build can give.
\* The difference of two signed stamps is a signed subtraction; when it does not
\* fit the type its behaviour is undefined: a build that wraps tests the
\* wrapped difference, a build that assumes no overflow tests mine <= other.
IsOlderThanOutcomes(mine, other) ==
    IF FitsInt64(mine - other)
    THEN {mine - other <= 0}
    ELSE {Int64Wrap(mine - other) <= 0, mine <= other}

\* TimeNodes time stamps are constructed while the counter is 0; lastOp keeps,
\* for every stamp, the number of CreateUniqId calls made before the one that
\* issued it
InitStamps ==
    /\ EnumIdle /\ ThreadsIdle /\ GradIdle /\ PoolIdle /\ AttachIdle /\ NodeIdle
    /\ m_inputs = [n \in 1..TimeNodes |-> <<>>]
    /\ s_timeStampCounter = 0
    /\ m_evalTimeStamp = [n \in 1..TimeNodes |-> ToInt64(ResetEvalTimeStamp(0))]
    /\ m_value = <<>> /\ seenStamps = <<>> /\ inputBumped = <<>>
    /\ lastOp = [op |-> "none", bumps |-> 0, issuedAt |-> [n \in 1..TimeNodes |-> 0]]

\* BumpEvalTimeStamp on the stamp of node n
BumpEvalTimeStamp(n) ==
    /\ lastOp.bumps < MaxBumps
    /\ LET id == CreateUniqIdInt64(s_timeStampCounter)
       IN  /\ m_evalTimeStamp' = [m_evalTimeStamp EXCEPT ![n] = id.ret]
           /\ s_timeStampCounter' = id.counter
    /\ lastOp' = [op |-> "Bump", bumps |-> lastOp.bumps + 1,
                  issuedAt |-> [lastOp.issuedAt EXCEPT ![n] = lastOp.bumps]]
    /\ UNCHANGED <<nodeVars, attachVars, poolVars, m_inputs, m_value, seenStamps,
                   inputBumped, enumVars, threadVars, gradVars>>

\* a.IsOlderThan(b) on the stamps of nodes a and b
CallIsOlderThan(a, b) ==
    /\ \E answer \in IsOlderThanOutcomes(m_evalTimeStamp[a], m_evalTimeStamp[b]) :
          lastOp' = [op |-> "IsOlderThan", bumps |-> lastOp.bumps,
                     issuedAt |-> lastOp.issuedAt, mine |-> a, other |-> b,
                     answer |-> answer]
    /\ UNCHANGED <<nodeVars, attachVars, poolVars, m_inputs, s_timeStampCounter,
                   m_evalTimeStamp, m_value, seenStamps, inputBumped, enumVars,
                   threadVars, gradVars>>

NextStamps ==
    \/ \E n \in NodesOf(m_inputs) : BumpEvalTimeStamp(n)
    \/ \E a, b \in NodesOf(m_inputs) : CallIsOlderThan(a, b)

SpecStamps == InitStamps /\ [][NextStamps]_vars

\* ---- claims, time stamps at the counter's width

\* the number of bumps of the counter between the stamps the last
\* IsOlderThan call compared
BumpsBetween == lastOp.issuedAt[lastOp.other] - lastOp.issuedAt[lastOp.mine]

\* the last call compared a stamp with one issued later, fewer than half the
\* counter's range of bumps later
ComparedWithLater ==
    /\ lastOp.op = "IsOlderThan"
    /\ BumpsBetween >= 0
    /\ BumpsBetween < HalfModulus

\* C39: for a time stamp b obtained by fewer than 2^(WordBits-1) bumps after
\* time stamp a, a.IsOlderThan(b) is true, even when the counter wrapped
\* between the two
C39_OlderAcrossWrapAround == ComparedWithLater => lastOp.answer

\* where the difference of the two stamps fits the signed type, the answer is
\* as C39 says; this includes the counter's wrap from its largest value to 0
C39_OlderWhereDifferenceFits ==
    (/\ ComparedWithLater
     /\ FitsInt64(m_evalTimeStamp[lastOp.mine] - m_evalTimeStamp[lastOp.other]))
    => lastOp.answer

\* the counter went from its largest value to 0 between the two stamps compared
C39_WitnessCounterWrapped ==
    /\ ComparedWithLater
    /\ lastOp.issuedAt[lastOp.mine] < Modulus
    /\ lastOp.issuedAt[lastOp.other] >= Modulus
    /\ lastOp.answer

=============================================================================
